---- MODULE Spec2Model ----
(***************************************************************************)
(* Model of the GSM triangulation engine of src/gsmlocation.py:            *)
(* TrianguladorGSM (measurement history, estimator selection, combiner),   *)
(* MapeadorGSM (trajectories) and AnalizadorGSMAvanzado (per-IMSI window,  *)
(* estimate list, purge).                                                  *)
(*                                                                         *)
(* Time is counted in whole minutes; datetime.now() is read once per call.  *)
(* A CeldaGSM is modelled by its identifier fields, its signal strength    *)
(* and its timestamp; arfcn, bsic, tipo_celda, latitude and longitude are  *)
(* carried by the code but never read by the engine.  An UbicacionEstimada *)
(* is modelled by its metodo, celdas_utilizadas and timestamp; latitude,   *)
(* longitude and precision do not influence the engine's control flow and  *)
(* are left out of the record; the arithmetic that produces them is        *)
(* modelled by operators over exact rationals and explored by SpecNumerico. *)
(* The success of the two minimize() calls is a nondeterministic input of  *)
(* each call that reaches them.                                            *)
(* An Optional value is a sequence of length 0 (None) or 1.                *)
(*                                                                         *)
(* Spec            calls made one at a time, two subjects, a few calls      *)
(* SpecLargo       one subject over a long run (the capacities 50 and 100)  *)
(* SpecConcurrente two threads inside procesar_medicion_celda at once      *)
(* SpecNumerico    one evaluation of a numerical routine                   *)
(* SpecMil         an engine that has already served 1000 calls            *)
(* SpecPurga       measurements of any age, the purge of the windows       *)
(* SpecLectura     the read accessors between the calls                    *)
(*                                                                         *)
(* The module also models the IMSI tracker of src/imsi.py and              *)
(* src/imsi-2.py (the callback mostrar_imsi / show_imsi and its globals)   *)
(* and the behaviour analyser of src/imsi-3.py                             *)
(* (AnalizadorMovil.analizar_comportamiento_sospechoso):                   *)
(* SpecRastreador  the packet callback of the tracker                      *)
(* SpecAnalizador  the analyser under a wall clock that can be set back    *)
(*                                                                         *)
(* Line 34 of the source carries the text of a comment without its "#";    *)
(* the model reads the field as tipo_celda: str.                           *)
(***************************************************************************)
EXTENDS Integers, Sequences, FiniteSets, TLC

\* ------------------------------------------------------------------ bounds

\* Number of procesar_medicion_celda calls explored by Spec.
MaxLlamadas == 3

\* The wall clock of Spec does not advance beyond this minute.
MaxReloj == 5

\* Number of procesar_medicion_celda calls explored by SpecLargo.
MaxLlamadasLargo == 104

\* In SpecLargo the first calls are free (the clock may step backwards after
\* them, the optimizer may fail in them); the later ones are the steady regime.
MaxLlamadasLibres == 3

\* Number of procesar_medicion_celda calls each thread of SpecConcurrente makes.
MaxIngestasHilo == 2

\* Longest list of pairs or of estimates handed to a routine in SpecNumerico.
MaxPares == 3

\* Number of calls the engine of SpecMil has served before the first state,
\* and number of further calls SpecMil explores.
LlamadasPrevias == 1000
MaxLlamadasMil == 60

\* Number of procesar_medicion_celda calls explored by SpecPurga, and the
\* minute beyond which its clock does not advance.
MaxLlamadasPurga == 3
MaxRelojPurga == 2

\* Number of procesar_medicion_celda calls explored by SpecLectura.
MaxLlamadasLectura == 3

\* Number of analizar_comportamiento_sospechoso calls explored by
\* SpecAnalizador, the minute beyond which its clock does not advance, and the
\* number of times its clock is set back.
MaxEventos == 12
MaxRelojAnalizador == 10
MaxRetrocesos == 1

\* ------------------------------------------------------- program constants

\* len(self.historial_mediciones[clave]) > 50
CAPACIDAD_HISTORIAL == 50

\* len(self.trayectorias[imsi]) > 100
CAPACIDAD_TRAYECTORIA == 100

\* timedelta(minutes=5)
MINUTOS_VENTANA == 5

\* if len(mediciones_actuales) < 3
MINIMO_TRIANGULACION == 3

\* if len(self.mediciones_actuales[imsi]) >= 2, if len(celdas) < 2
MINIMO_CELDAS == 2

\* self.ubicaciones_estimadas[-1000:]
CAPACIDAD_ESTIMACIONES == 1000

\* imsi-3.py: timedelta(minutes=5)
MINUTOS_REASIGNACION == 5

\* imsi-3.py: len(self.reasignaciones_rapidas[evento.imsi]) > 10
UMBRAL_REASIGNACIONES == 10

\* imsi-3.py: len(self.imsi_hopping[evento.imsi]) > 5
UMBRAL_CELDAS == 5

\* ------------------------------------------------------------- input sets

None == <<>>
Some(x) == <<x>>

IMSIs == {"A", "B"}

Identidad(mcc, mnc, lac, cell_id) ==
    [mcc |-> mcc, mnc |-> mnc, lac |-> lac, cell_id |-> cell_id]

celda1 == Identidad("214", "07", "1", "1")
celda2 == Identidad("214", "07", "1", "2")
celda3 == Identidad("214", "07", "1", "3")
\* an identifier tuple whose mcc is empty
celdaMal == Identidad("", "07", "1", "1")

\* the identities Spec draws from, and those SpecLargo cycles through
Identidades == {celda1, celda2, celdaMal}
IdentidadesLargo == <<celda1, celda2, celda3>>

\* info_gsm.get('rssi', -70)
Potencias == {-70}

\* age of a measurement when it is handed to the engine, in minutes
Edades == {0, 1}

\* minutes the clock advances between two calls
Avances == {5}

\* CeldaGSM
CeldaGSM(id, potencia, timestamp) ==
    [mcc |-> id.mcc, mnc |-> id.mnc, lac |-> id.lac, cell_id |-> id.cell_id,
     signal_strength |-> potencia, timestamp |-> timestamp]

\* UbicacionEstimada
UbicacionEstimada(metodo, celdas, timestamp) ==
    [metodo |-> metodo, celdas_utilizadas |-> celdas, timestamp |-> timestamp]

\* f"{celda.mcc}-{celda.mnc}-{celda.lac}-{celda.cell_id}"
Clave(celda) ==
    celda.mcc \o "-" \o celda.mnc \o "-" \o celda.lac \o "-" \o celda.cell_id

\* contents of gsm_cell_database.json: none (file missing, lines 55-57), three
\* towers, two towers
DirectorioVacio == << >>
DirectorioCompleto ==
    [k \in {Clave(celda1), Clave(celda2), Clave(celda3)} |->
        IF k = Clave(celda1) THEN [lat |-> 0, lon |-> 0]
        ELSE IF k = Clave(celda2) THEN [lat |-> 0, lon |-> 10]
        ELSE [lat |-> 10, lon |-> 0]]
DirectorioParcial ==
    [k \in {Clave(celda1), Clave(celda2)} |-> DirectorioCompleto[k]]

\* the directories Spec starts from; SpecLargo starts from DirectorioCompleto
Directorios == {DirectorioVacio, DirectorioParcial}

\* ------------------------------------------------------------------ state

VARIABLES
    estaciones_base,        \* TrianguladorGSM.estaciones_base
    historial_mediciones,   \* TrianguladorGSM.historial_mediciones
    mediciones_actuales,    \* AnalizadorGSMAvanzado.mediciones_actuales
    trayectorias,           \* MapeadorGSM.trayectorias
    ubicaciones_estimadas,  \* AnalizadorGSMAvanzado.ubicaciones_estimadas
    reloj,                  \* datetime.now(), in minutes
    llamada,                \* history variable: the last call and what it did
    registradas,            \* history variable: every measurement recorded, per key
    producidas,             \* history variable: every estimate produced, per IMSI
    n_llamadas,             \* number of calls made
    hilos,                  \* threads inside procesar_medicion_celda: their locals
    orden_ventanas,         \* insertion order of the keys of mediciones_actuales
    calculo,                \* the last evaluation of a routine that returns a value
    rastreador,             \* the globals of imsi.py, or of imsi-2.py
    analizador_movil        \* the AnalizadorMovil of imsi-3.py

\* the engine and its callers
motor == <<estaciones_base, historial_mediciones, mediciones_actuales,
           trayectorias, ubicaciones_estimadas, reloj, llamada, registradas,
           producidas, n_llamadas, hilos, orden_ventanas>>

vars == <<estaciones_base, historial_mediciones, mediciones_actuales,
          trayectorias, ubicaciones_estimadas, reloj, llamada, registradas,
          producidas, n_llamadas, hilos, orden_ventanas, calculo,
          rastreador, analizador_movil>>

\* the state of the IMSI trackers, which the triangulation engine never reads
rastreo == <<rastreador, analizador_movil>>

\* the variables only a threaded run uses: a call made to completion by a
\* single caller has no thread state, and the order in which line 498 visits
\* the keys does not change what it leaves
concurrentes == <<hilos, orden_ventanas>>

\* --------------------------------------------------------- dict operations

\* d[k] of a defaultdict(list) read without inserting
Leer(d, k) == IF k \in DOMAIN d THEN d[k] ELSE <<>>

\* d[k] = v
Poner(d, k, v) == [x \in DOMAIN d \cup {k} |-> IF x = k THEN v ELSE d[x]]

\* lista.pop(0)
Pop0(lista) == SubSeq(lista, 2, Len(lista))

\* the last n entries of a sequence, in order
Ultimos(lista, n) ==
    IF Len(lista) > n THEN SubSeq(lista, Len(lista) - n + 1, Len(lista))
    ELSE lista

\* --------------------------------------------------------- TrianguladorGSM

\* variant of agregar_medicion_celda that drops the newest entry: pop() for pop(0)
AgregarMedicionCelda_PopFinal(historial, celda) ==
    LET clave == Clave(celda)
        lista == Append(Leer(historial, clave), celda)
    IN  Poner(historial, clave,
              IF Len(lista) > CAPACIDAD_HISTORIAL
              THEN SubSeq(lista, 1, Len(lista) - 1) ELSE lista)

\* self.historial_mediciones[clave].append(celda); pop(0) beyond 50
AgregarMedicionCelda(historial, celda) ==
    LET clave == Clave(celda)
        lista == Append(Leer(historial, clave), celda)
    IN  Poner(historial, clave,
              IF Len(lista) > CAPACIDAD_HISTORIAL THEN Pop0(lista) ELSE lista)

\* variant of _obtener_ubicacion_celda with a default coordinate for a miss:
\* .get(clave, {'lat': 0, 'lon': 0})
ObtenerUbicacionCelda_PorDefecto(base, celda) ==
    IF Clave(celda) \in DOMAIN base THEN Some(base[Clave(celda)])
    ELSE Some([lat |-> 0, lon |-> 0])

\* self.estaciones_base.get(clave)
ObtenerUbicacionCelda(base, celda) ==
    IF Clave(celda) \in DOMAIN base THEN Some(base[Clave(celda)]) ELSE None

\* [(celda, ubicacion) for celda in mediciones if ubicacion]
CeldasConUbicacion(base, mediciones) ==
    LET conocidas == SelectSeq(mediciones,
                         LAMBDA c : ObtenerUbicacionCelda(base, c) # None)
    IN  [i \in 1..Len(conocidas) |->
            [celda |-> conocidas[i],
             ubicacion |-> ObtenerUbicacionCelda(base, conocidas[i])[1]]]

\* [celda for celda, _ in celdas]
SoloCeldas(celdas) == [i \in 1..Len(celdas) |-> celdas[i].celda]

\* _triangulacion_rssi: the optimizer's success is not determined by the model
TriangulacionRssi(celdas, exito, ahora) ==
    IF exito THEN Some(UbicacionEstimada("RSSI", SoloCeldas(celdas), ahora))
    ELSE None

\* _triangulacion_toa
TriangulacionToa(celdas, exito, ahora) ==
    IF exito THEN Some(UbicacionEstimada("TOA", SoloCeldas(celdas), ahora))
    ELSE None

\* _metodo_centroide
MetodoCentroide(celdas, ahora) ==
    UbicacionEstimada("CENTROIDE", SoloCeldas(celdas), ahora)

RECURSIVE TodasCeldas(_)
\* todas_celdas.extend(resultado.celdas_utilizadas) for each resultado
TodasCeldas(resultados) ==
    IF resultados = <<>> THEN <<>>
    ELSE Head(resultados).celdas_utilizadas \o TodasCeldas(Tail(resultados))

\* variant of _combinar_resultados that hands a single result back unchanged
CombinarResultados_UnoSinCombinar(resultados, ahora) ==
    IF Len(resultados) = 1 THEN resultados[1]
    ELSE UbicacionEstimada("COMBINADO", TodasCeldas(resultados), ahora)

\* variant of _combinar_resultados that keeps the first result's cells only:
\* celdas_utilizadas=resultados[0].celdas_utilizadas
CombinarResultados_SoloPrimero(resultados, ahora) ==
    UbicacionEstimada("COMBINADO", resultados[1].celdas_utilizadas, ahora)

\* _combinar_resultados
CombinarResultados(resultados, ahora) ==
    UbicacionEstimada("COMBINADO", TodasCeldas(resultados), ahora)

\* [r.metodo for r in resultados]
Metodos(resultados) == [i \in 1..Len(resultados) |-> resultados[i].metodo]

\* variant of _estimar_ubicacion_2_celdas that accepts one resolved cell:
\* len(celdas_con_ubicacion) < 1 at line 242
EstimarUbicacion2Celdas_UnaBasta(base, celdas, ahora) ==
    IF Len(celdas) < MINIMO_CELDAS THEN None
    ELSE IF Len(CeldasConUbicacion(base, celdas)) < 1 THEN None
    ELSE Some(UbicacionEstimada("2_CELDAS", celdas, ahora))

\* _estimar_ubicacion_2_celdas
EstimarUbicacion2Celdas(base, celdas, ahora) ==
    IF Len(celdas) < MINIMO_CELDAS THEN None
    ELSE IF Len(CeldasConUbicacion(base, celdas)) < MINIMO_CELDAS THEN None
    ELSE Some(UbicacionEstimada("2_CELDAS", celdas, ahora))

\* variant of triangular_ubicacion that accepts one resolved cell:
\* len(celdas_con_ubicacion) < 1 at line 80
TriangularUbicacion_UnaBasta(base, mediciones, rssi_ok, toa_ok, ahora) ==
    IF Len(mediciones) < MINIMO_TRIANGULACION
    THEN [ubicacion |-> EstimarUbicacion2Celdas(base, mediciones, ahora),
          invocados |-> {"2_CELDAS"}, contribuyentes |-> <<>>]
    ELSE
      LET celdas == CeldasConUbicacion(base, mediciones)
          resultados == TriangulacionRssi(celdas, rssi_ok, ahora)
                        \o TriangulacionToa(celdas, toa_ok, ahora)
                        \o Some(MetodoCentroide(celdas, ahora))
      IN  IF Len(celdas) < 1
          THEN [ubicacion |-> None, invocados |-> {}, contribuyentes |-> <<>>]
          ELSE [ubicacion |-> Some(CombinarResultados(resultados, ahora)),
                invocados |-> {"RSSI", "TOA", "CENTROIDE", "COMBINADO"},
                contribuyentes |-> Metodos(resultados)]

\* variant of triangular_ubicacion in which a failed RSSI estimator ends the
\* call: "if not resultado_rssi: return None" at line 88
TriangularUbicacion_FalloAborta(base, mediciones, rssi_ok, toa_ok, ahora) ==
    IF Len(mediciones) < MINIMO_TRIANGULACION
    THEN [ubicacion |-> EstimarUbicacion2Celdas(base, mediciones, ahora),
          invocados |-> {"2_CELDAS"}, contribuyentes |-> <<>>]
    ELSE
      LET celdas == CeldasConUbicacion(base, mediciones)
          resultados == TriangulacionRssi(celdas, rssi_ok, ahora)
                        \o TriangulacionToa(celdas, toa_ok, ahora)
                        \o Some(MetodoCentroide(celdas, ahora))
      IN  IF Len(celdas) < MINIMO_CELDAS
          THEN [ubicacion |-> None, invocados |-> {}, contribuyentes |-> <<>>]
          ELSE IF ~rssi_ok
          THEN [ubicacion |-> None, invocados |-> {"RSSI"},
                contribuyentes |-> <<>>]
          ELSE [ubicacion |-> Some(CombinarResultados(resultados, ahora)),
                invocados |-> {"RSSI", "TOA", "CENTROIDE", "COMBINADO"},
                contribuyentes |-> Metodos(resultados)]

\* triangular_ubicacion: the estimate (or None), the estimators it invoked and
\* the methods of the results it handed to _combinar_resultados, in order
TriangularUbicacion(base, mediciones, rssi_ok, toa_ok, ahora) ==
    IF Len(mediciones) < MINIMO_TRIANGULACION
    THEN [ubicacion |-> EstimarUbicacion2Celdas(base, mediciones, ahora),
          invocados |-> {"2_CELDAS"}, contribuyentes |-> <<>>]
    ELSE
      LET celdas == CeldasConUbicacion(base, mediciones)
          resultados == TriangulacionRssi(celdas, rssi_ok, ahora)
                        \o TriangulacionToa(celdas, toa_ok, ahora)
                        \o Some(MetodoCentroide(celdas, ahora))
      IN  IF Len(celdas) < MINIMO_CELDAS
          THEN [ubicacion |-> None, invocados |-> {}, contribuyentes |-> <<>>]
          ELSE [ubicacion |-> IF resultados = <<>> THEN None
                              ELSE Some(CombinarResultados(resultados, ahora)),
                invocados |-> {"RSSI", "TOA", "CENTROIDE", "COMBINADO"},
                contribuyentes |-> Metodos(resultados)]

\* ------------------------------------------ TrianguladorGSM: arithmetic
\* The float arithmetic of the estimators over exact rationals [n, d], d > 0,
\* in lowest terms.  Signal strengths are integers (CeldaGSM.signal_strength:
\* int); a precision is carried in thousandths of a kilometre, so that the
\* 0.001 of line 314 is 1.  Rounding of floats is not modelled.

Abs(x) == IF x < 0 THEN -x ELSE x

RECURSIVE MCD(_, _)
\* greatest common divisor of two naturals
MCD(a, b) == IF b = 0 THEN a ELSE MCD(b, a % b)

\* the rational n/d (d # 0)
Rac(n, d) ==
    LET g == MCD(Abs(n), Abs(d))
        s == IF d < 0 THEN -1 ELSE 1
    IN  [n |-> (s * n) \div g, d |-> (s * d) \div g]

Entero(k) == [n |-> k, d |-> 1]

\* a + b, over the least common denominator
Mas(a, b) ==
    LET g == MCD(a.d, b.d)
    IN  Rac(a.n * (b.d \div g) + b.n * (a.d \div g), (a.d \div g) * b.d)

\* a * b
Por(a, b) ==
    LET x == Rac(a.n, b.d)
        y == Rac(b.n, a.d)
    IN  [n |-> x.n * y.n, d |-> x.d * y.d]

\* a / b (b # 0)
Entre(a, b) == Por(a, Rac(b.d, b.n))

Menos(a, b) == Mas(a, [n |-> -b.n, d |-> b.d])

Menor(a, b) == a.n * b.d < b.n * a.d

MenorIgual(a, b) == a.n * b.d <= b.n * a.d

AbsRac(a) == [n |-> Abs(a.n), d |-> a.d]

RECURSIVE Suma(_)
\* np.sum of a list of rationals
Suma(xs) == IF xs = <<>> THEN Entero(0) ELSE Mas(Head(xs), Suma(Tail(xs)))

RECURSIVE SumaEnteros(_)
\* np.sum of a list of integers
SumaEnteros(xs) == IF xs = <<>> THEN 0 ELSE Head(xs) + SumaEnteros(Tail(xs))

\* np.average(valores, weights=pesos): sum(valores * pesos) / sum(pesos)
Promedio(valores, pesos) ==
    Entre(Suma([i \in 1..Len(valores) |-> Por(valores[i], pesos[i])]),
          Suma(pesos))

\* _calcular_distancia between two points of one meridian (lon1 = lon2),
\* where the haversine formula is R * |dlat|: latitudes are given in
\* kilometres of arc along the meridian, and so is the result
CalcularDistancia(lat1, lon1, lat2, lon2) == AbsRac(Menos(lat2, lat1))

\* _estimar_ubicacion_2_celdas, lines 245-264: position and precision
PosicionDosCeldas(celda1_, ubic1, celda2_, ubic2) ==
    LET rssi_total == celda1_.signal_strength + celda2_.signal_strength
        peso1 == IF rssi_total > 0 THEN Rac(celda1_.signal_strength, rssi_total)
                 ELSE Rac(1, 2)
        peso2 == IF rssi_total > 0 THEN Rac(celda2_.signal_strength, rssi_total)
                 ELSE Rac(1, 2)
    IN  [latitude |-> Mas(Por(Entero(ubic1.lat), peso1),
                          Por(Entero(ubic2.lat), peso2)),
         longitude |-> Mas(Por(Entero(ubic1.lon), peso1),
                           Por(Entero(ubic2.lon), peso2)),
         precision |-> Por(CalcularDistancia(Entero(ubic1.lat), Entero(ubic1.lon),
                                             Entero(ubic2.lat), Entero(ubic2.lon)),
                           Rac(1, 2))]

\* variant of lines 207-211 that falls back only when no weight is positive:
\* "if np.any(pesos > 0)"
PesosCentroide_AlgunoPositivo(pesos) ==
    IF \E i \in 1..Len(pesos) : pesos[i] > 0
    THEN [i \in 1..Len(pesos) |->
             IF SumaEnteros(pesos) = 0 THEN Entero(pesos[i])
             ELSE Rac(pesos[i], SumaEnteros(pesos))]
    ELSE [i \in 1..Len(pesos) |-> Rac(1, Len(pesos))]

\* _metodo_centroide, lines 207-211: the normalised weights
PesosCentroide(pesos) ==
    IF SumaEnteros(pesos) > 0
    THEN [i \in 1..Len(pesos) |-> Rac(pesos[i], SumaEnteros(pesos))]
    ELSE [i \in 1..Len(pesos) |-> Rac(1, Len(pesos))]

\* variant of lines 213-214 that sums the raw products:
\* np.dot(lats, signal strengths)
PosicionCentroide_SinNormalizar(celdas) ==
    LET pesos == [i \in 1..Len(celdas) |-> Entero(celdas[i].celda.signal_strength)]
    IN  [pesos |-> PesosCentroide(
                       [i \in 1..Len(celdas) |-> celdas[i].celda.signal_strength]),
         latitude |-> Suma([i \in 1..Len(celdas) |->
                               Por(Entero(celdas[i].ubicacion.lat), pesos[i])]),
         longitude |-> Suma([i \in 1..Len(celdas) |->
                                Por(Entero(celdas[i].ubicacion.lon), pesos[i])])]

\* _metodo_centroide, lines 196-214: weights and position
PosicionCentroide(celdas) ==
    LET pesos == PesosCentroide(
                     [i \in 1..Len(celdas) |-> celdas[i].celda.signal_strength])
    IN  [pesos |-> pesos,
         latitude |-> Promedio([i \in 1..Len(celdas) |->
                                   Entero(celdas[i].ubicacion.lat)], pesos),
         longitude |-> Promedio([i \in 1..Len(celdas) |->
                                    Entero(celdas[i].ubicacion.lon)], pesos)]

\* _metodo_centroide, lines 217-220: the precision is the square root of
\* radicando; np.sqrt of a negative number is nan (and a RuntimeWarning)
PrecisionCentroide(celdas) ==
    LET p == PosicionCentroide(celdas)
        desvio2(x, c) == Por(Menos(Entero(x), c), Menos(Entero(x), c))
        radicando ==
            Mas(Promedio([i \in 1..Len(celdas) |->
                             desvio2(celdas[i].ubicacion.lat, p.latitude)],
                         p.pesos),
                Promedio([i \in 1..Len(celdas) |->
                             desvio2(celdas[i].ubicacion.lon, p.longitude)],
                         p.pesos))
    IN  [radicando |-> radicando, nan |-> Menor(radicando, Entero(0))]

\* variant of line 314 that weights by the precision itself: p + 0.001
PesosCombinacion_Directos(precisiones) ==
    LET pesos == [i \in 1..Len(precisiones) |->
                     Rac(precisiones[i] + 1, 1000)]
    IN  [i \in 1..Len(pesos) |-> Entre(pesos[i], Suma(pesos))]

\* variant of line 314 with another epsilon: 1/(p + 0.01)
PesosCombinacion_Epsilon10(precisiones) ==
    LET pesos == [i \in 1..Len(precisiones) |->
                     Rac(1000, precisiones[i] + 10)]
    IN  [i \in 1..Len(pesos) |-> Entre(pesos[i], Suma(pesos))]

\* _combinar_resultados, lines 314-315: 1/(p + 0.001), normalised; p is in
\* thousandths, so 1/(p/1000 + 1/1000) = 1000/(p + 1)
PesosCombinacion(precisiones) ==
    LET pesos == [i \in 1..Len(precisiones) |->
                     Rac(1000, precisiones[i] + 1)]
    IN  [i \in 1..Len(pesos) |-> Entre(pesos[i], Suma(pesos))]

\* _combinar_resultados, lines 309-320: weights, position and precision
Combinacion(resultados) ==
    LET pesos == PesosCombinacion(
                     [i \in 1..Len(resultados) |-> resultados[i].precision])
    IN  [pesos |-> pesos,
         latitude |-> Promedio([i \in 1..Len(resultados) |->
                                   Entero(resultados[i].latitude)], pesos),
         longitude |-> Promedio([i \in 1..Len(resultados) |->
                                    Entero(resultados[i].longitude)], pesos),
         precision |-> Promedio([i \in 1..Len(resultados) |->
                                    Entero(resultados[i].precision)], pesos)]

\* ------------------------------------------------------------- MapeadorGSM

\* variant of actualizar_trayectoria that keeps the trajectory sorted by timestamp
ActualizarTrayectoria_Ordenada(tray, imsi, ubicacion) ==
    LET lista == SortSeq(Append(Leer(tray, imsi), ubicacion),
                         LAMBDA a, b : a.timestamp < b.timestamp)
    IN  Poner(tray, imsi,
              IF Len(lista) > CAPACIDAD_TRAYECTORIA THEN Pop0(lista) ELSE lista)

\* actualizar_trayectoria
ActualizarTrayectoria(tray, imsi, ubicacion) ==
    LET lista == Append(Leer(tray, imsi), ubicacion)
    IN  Poner(tray, imsi,
              IF Len(lista) > CAPACIDAD_TRAYECTORIA THEN Pop0(lista) ELSE lista)

\* --------------------------------------------------- AnalizadorGSMAvanzado

\* variant of line 501 with an inclusive comparison:
\* (ahora - celda.timestamp) <= timedelta(minutes=5)
Reciente_HastaCinco(celda, ahora) == ahora - celda.timestamp <= MINUTOS_VENTANA

\* (ahora - celda.timestamp) < timedelta(minutes=5)
Reciente(celda, ahora) == ahora - celda.timestamp < MINUTOS_VENTANA

\* variant of the purge that keeps the newest entry of a window whatever its
\* age: [c for c in mediciones[:-1] if ...] + mediciones[-1:]
LimpiarMedicionesAntiguas_SalvoUltima(actuales, ahora) ==
    [i \in DOMAIN actuales |->
        IF actuales[i] = <<>> THEN <<>>
        ELSE SelectSeq(SubSeq(actuales[i], 1, Len(actuales[i]) - 1),
                       LAMBDA c : Reciente(c, ahora))
             \o <<actuales[i][Len(actuales[i])]>>]

\* _limpiar_mediciones_antiguas
LimpiarMedicionesAntiguas(actuales, ahora) ==
    [i \in DOMAIN actuales |->
        SelectSeq(actuales[i], LAMBDA c : Reciente(c, ahora))]

\* variant of the estimation step that waits for three measurements:
\* len(self.mediciones_actuales[imsi]) >= 3 at line 477
Estimar_DesdeTres(base, ventana, rssi_ok, toa_ok, ahora) ==
    IF Len(ventana) >= MINIMO_TRIANGULACION
    THEN TriangularUbicacion(base, ventana, rssi_ok, toa_ok, ahora)
    ELSE [ubicacion |-> None, invocados |-> {}, contribuyentes |-> <<>>]

\* the estimation step of procesar_medicion_celda (lines 476-480)
Estimar(base, ventana, rssi_ok, toa_ok, ahora) ==
    IF Len(ventana) >= MINIMO_CELDAS
    THEN TriangularUbicacion(base, ventana, rssi_ok, toa_ok, ahora)
    ELSE [ubicacion |-> None, invocados |-> {}, contribuyentes |-> <<>>]

\* variant of line 474 that hands the window the history of the cell:
\* self.mediciones_actuales[imsi].extend(historial_mediciones[clave])
ProcesarMedicionCelda_HistorialAVentana(imsi, celda, rssi_ok, toa_ok) ==
    LET ventana == Leer(mediciones_actuales, imsi)
                       \o AgregarMedicionCelda(historial_mediciones,
                                               celda)[Clave(celda)]
        r == Estimar(estaciones_base, ventana, rssi_ok, toa_ok, reloj)
    IN  /\ historial_mediciones' = AgregarMedicionCelda(historial_mediciones, celda)
        /\ ubicaciones_estimadas' = ubicaciones_estimadas \o r.ubicacion
        /\ trayectorias' =
              IF r.ubicacion # None
              THEN ActualizarTrayectoria(trayectorias, imsi, r.ubicacion[1])
              ELSE trayectorias
        /\ mediciones_actuales' =
              LimpiarMedicionesAntiguas(
                  Poner(mediciones_actuales, imsi, ventana), reloj)
        /\ llamada' = [imsi |-> imsi, celda |-> celda, hora |-> reloj,
                       ventana |-> ventana, ubicacion |-> r.ubicacion,
                       invocados |-> r.invocados,
                       contribuyentes |-> r.contribuyentes,
                       rssi_ok |-> rssi_ok, toa_ok |-> toa_ok]
        /\ registradas' = Poner(registradas, Clave(celda),
                                Append(Leer(registradas, Clave(celda)), celda))
        /\ producidas' = IF r.ubicacion # None
                         THEN Poner(producidas, imsi,
                                    Leer(producidas, imsi) \o r.ubicacion)
                         ELSE producidas
        /\ n_llamadas' = n_llamadas + 1
        /\ UNCHANGED <<rastreo, calculo, estaciones_base, reloj, concurrentes>>

\* variant of lines 486-487 that draws the trajectory from combined
\* estimates only: if ubicacion.metodo == "COMBINADO"
ProcesarMedicionCelda_TrayectoriaCombinada(imsi, celda, rssi_ok, toa_ok) ==
    LET ventana == Append(Leer(mediciones_actuales, imsi), celda)
        r == Estimar(estaciones_base, ventana, rssi_ok, toa_ok, reloj)
    IN  /\ historial_mediciones' = AgregarMedicionCelda(historial_mediciones, celda)
        /\ ubicaciones_estimadas' = ubicaciones_estimadas \o r.ubicacion
        /\ trayectorias' =
              IF r.ubicacion # None /\ r.ubicacion[1].metodo = "COMBINADO"
              THEN ActualizarTrayectoria(trayectorias, imsi, r.ubicacion[1])
              ELSE trayectorias
        /\ mediciones_actuales' =
              LimpiarMedicionesAntiguas(
                  Poner(mediciones_actuales, imsi, ventana), reloj)
        /\ llamada' = [imsi |-> imsi, celda |-> celda, hora |-> reloj,
                       ventana |-> ventana, ubicacion |-> r.ubicacion,
                       invocados |-> r.invocados,
                       contribuyentes |-> r.contribuyentes,
                       rssi_ok |-> rssi_ok, toa_ok |-> toa_ok]
        /\ registradas' = Poner(registradas, Clave(celda),
                                Append(Leer(registradas, Clave(celda)), celda))
        /\ producidas' = IF r.ubicacion # None
                         THEN Poner(producidas, imsi,
                                    Leer(producidas, imsi) \o r.ubicacion)
                         ELSE producidas
        /\ n_llamadas' = n_llamadas + 1
        /\ UNCHANGED <<rastreo, calculo, estaciones_base, reloj, concurrentes>>

\* procesar_medicion_celda
ProcesarMedicionCelda(imsi, celda, rssi_ok, toa_ok) ==
    LET ventana == Append(Leer(mediciones_actuales, imsi), celda)
        r == Estimar(estaciones_base, ventana, rssi_ok, toa_ok, reloj)
    IN  /\ historial_mediciones' = AgregarMedicionCelda(historial_mediciones, celda)
        /\ ubicaciones_estimadas' = ubicaciones_estimadas \o r.ubicacion
        /\ trayectorias' =
              IF r.ubicacion # None
              THEN ActualizarTrayectoria(trayectorias, imsi, r.ubicacion[1])
              ELSE trayectorias
        /\ mediciones_actuales' =
              LimpiarMedicionesAntiguas(
                  Poner(mediciones_actuales, imsi, ventana), reloj)
        /\ llamada' = [imsi |-> imsi, celda |-> celda, hora |-> reloj,
                       ventana |-> ventana, ubicacion |-> r.ubicacion,
                       invocados |-> r.invocados,
                       contribuyentes |-> r.contribuyentes,
                       rssi_ok |-> rssi_ok, toa_ok |-> toa_ok]
        /\ registradas' = Poner(registradas, Clave(celda),
                                Append(Leer(registradas, Clave(celda)), celda))
        /\ producidas' = IF r.ubicacion # None
                         THEN Poner(producidas, imsi,
                                    Leer(producidas, imsi) \o r.ubicacion)
                         ELSE producidas
        /\ n_llamadas' = n_llamadas + 1
        /\ UNCHANGED <<rastreo, calculo, estaciones_base, reloj, concurrentes>>

\* ---------------------------------------------------------- specification

\* no numerical routine has been evaluated
SinCalculo ==
    [op |-> "ninguna", entradas |-> <<>>, hecho |-> FALSE, salida |-> <<>>]

\* imsi.py, lines 11-23, before main() has read the options
SinRastreador ==
    [programa |-> "", imsi_a_seguir |-> <<>>, mostrar_todos_tmsi |-> FALSE,
     imsis_detectados |-> <<>>, tmsis_asociados |-> << >>,
     contador_imsi |-> 0,
     llamada |-> [imsi1 |-> <<>>, imsi2 |-> <<>>, tmsi1 |-> "", tmsi2 |-> ""]]

\* AnalizadorMovil.__init__, lines 38-45, and the empty table alertas of the
\* database; eventos, llamada and retrocesos are history: the number of calls
\* made, the last call and the alerts it raised, the backward steps of the
\* clock
SinAnalizador ==
    [reasignaciones_rapidas |-> << >>, imsi_hopping |-> << >>,
     alertas |-> <<>>, tabla_alertas |-> <<>>, eventos |-> 0,
     llamada |-> [imsi |-> "", hora |-> 0, alertas |-> <<>>],
     retrocesos |-> 0]

\* value of the history variable before the first call
SinLlamada ==
    [imsi |-> "", celda |-> CeldaGSM(celda1, 0, 0), hora |-> 0,
     ventana |-> <<>>, ubicacion |-> None, invocados |-> {},
     contribuyentes |-> <<>>, rssi_ok |-> FALSE, toa_ok |-> FALSE]

\* AnalizadorGSMAvanzado.__init__, with the directory the file holds
Init ==
    /\ estaciones_base \in Directorios
    /\ historial_mediciones = << >>
    /\ mediciones_actuales = << >>
    /\ trayectorias = << >>
    /\ ubicaciones_estimadas = <<>>
    /\ reloj = 0
    /\ llamada = SinLlamada
    /\ registradas = << >>
    /\ producidas = << >>
    /\ n_llamadas = 0
    /\ hilos = << >>
    /\ orden_ventanas = <<>>
    /\ rastreador = SinRastreador
    /\ analizador_movil = SinAnalizador
    /\ calculo = SinCalculo

\* outcomes of the two minimize() calls of one call: they exist only when
\* triangular_ubicacion reaches lines 87-94
ResultadosOptimizador(imsi, celda) ==
    LET ventana == Append(Leer(mediciones_actuales, imsi), celda)
    IN  IF "RSSI" \in Estimar(estaciones_base, ventana, FALSE, FALSE, reloj).invocados
        THEN BOOLEAN \X BOOLEAN
        ELSE {<<FALSE, FALSE>>}

\* a caller hands one measurement to the engine
Ingerir ==
    /\ n_llamadas < MaxLlamadas
    /\ \E imsi \in IMSIs, id \in Identidades, p \in Potencias, e \in Edades :
          LET celda == CeldaGSM(id, p, reloj - e)
          IN  \E exito \in ResultadosOptimizador(imsi, celda) :
                  ProcesarMedicionCelda(imsi, celda, exito[1], exito[2])

\* time passes between two calls
AvanzarReloj ==
    /\ \E d \in Avances : reloj + d <= MaxReloj /\ reloj' = reloj + d
    /\ UNCHANGED <<rastreo, calculo, estaciones_base, historial_mediciones, mediciones_actuales,
                   trayectorias, ubicaciones_estimadas, llamada, registradas,
                   producidas, n_llamadas, concurrentes>>

Next == Ingerir \/ AvanzarReloj

Spec == Init /\ [][Next]_vars

\* ------------------------------------------- specification of a long run
\* One subscriber crosses celda1, celda2, celda3 and then stays on celda1.
\* Its first MaxLlamadasLibres measurements arrive in a burst (at the same
\* clock reading, or after the wall clock was set back a minute); from then
\* on one measurement arrives every two minutes.

InitLargo ==
    /\ estaciones_base = DirectorioCompleto
    /\ historial_mediciones = << >>
    /\ mediciones_actuales = << >>
    /\ trayectorias = << >>
    /\ ubicaciones_estimadas = <<>>
    /\ reloj = 0
    /\ llamada = SinLlamada
    /\ registradas = << >>
    /\ producidas = << >>
    /\ n_llamadas = 0
    /\ hilos = << >>
    /\ orden_ventanas = <<>>
    /\ rastreador = SinRastreador
    /\ analizador_movil = SinAnalizador
    /\ calculo = SinCalculo

IdentidadLargo(n) ==
    IF n < Len(IdentidadesLargo) THEN IdentidadesLargo[n + 1] ELSE celda1

\* the clock has been read since the last call
RelojMovido == n_llamadas = 0 \/ reloj # llamada.hora

IngerirLargo ==
    /\ n_llamadas < MaxLlamadasLargo
    /\ n_llamadas < MaxLlamadasLibres \/ RelojMovido
    /\ LET celda == CeldaGSM(IdentidadLargo(n_llamadas), -70, reloj)
       IN  \E exito \in IF n_llamadas < MaxLlamadasLibres
                         THEN ResultadosOptimizador("A", celda)
                         ELSE {<<TRUE, TRUE>>} :
               ProcesarMedicionCelda("A", celda, exito[1], exito[2])

AvanzarRelojLargo ==
    /\ ~RelojMovido
    /\ n_llamadas >= MaxLlamadasLibres
    /\ reloj' = reloj + 2
    /\ UNCHANGED <<rastreo, calculo, estaciones_base, historial_mediciones, mediciones_actuales,
                   trayectorias, ubicaciones_estimadas, llamada, registradas,
                   producidas, n_llamadas, concurrentes>>

\* datetime.now() is local wall-clock time: it can be set back
RetrocederReloj ==
    /\ ~RelojMovido
    /\ n_llamadas < MaxLlamadasLibres
    /\ reloj' = reloj - 1
    /\ UNCHANGED <<rastreo, calculo, estaciones_base, historial_mediciones, mediciones_actuales,
                   trayectorias, ubicaciones_estimadas, llamada, registradas,
                   producidas, n_llamadas, concurrentes>>

NextLargo == IngerirLargo \/ AvanzarRelojLargo \/ RetrocederReloj

SpecLargo == InitLargo /\ [][NextLargo]_vars

\* --------------------------------------- specification of a threaded run
\* Two threads call procesar_medicion_celda on one AnalizadorGSMAvanzado, each
\* for its own subject, MaxIngestasHilo times each.  The code takes no lock;
\* a thread can be pre-empted between any two statements.  A step is one
\* statement of lines 471-502; the purge loop of lines 498-502 is, per key,
\* the evaluation of the list comprehension and then the store.

Hilos == {"t1", "t2"}

\* the subject each thread reports
SujetoDe(h) == IF h = "t1" THEN "A" ELSE "B"

\* the measurement of a thread's n-th call (n counted from 0)
CeldaHilo(h, n) == CeldaGSM(IF n = 0 THEN celda1 ELSE celda2, -70, 0)

\* the locals of a thread that has not called yet
HiloInicial ==
    [pc |-> "historial", hechas |-> 0, ubicacion |-> None, exitos |-> <<>>,
     tam |-> 0, i |-> 0, filtrada |-> <<>>]

InitConcurrente ==
    /\ estaciones_base = DirectorioParcial
    /\ historial_mediciones = << >>
    /\ mediciones_actuales = << >>
    /\ trayectorias = << >>
    /\ ubicaciones_estimadas = <<>>
    /\ reloj = 0
    /\ llamada = SinLlamada
    /\ registradas = << >>
    /\ producidas = << >>
    /\ n_llamadas = 0
    /\ hilos = [h \in Hilos |-> HiloInicial]
    /\ orden_ventanas = <<>>
    /\ rastreador = SinRastreador
    /\ analizador_movil = SinAnalizador
    /\ calculo = SinCalculo

\* hilos with the locals of thread h replaced
ConHilo(h, locales) == [hilos EXCEPT ![h] = locales]

\* line 473: self.triangulador.agregar_medicion_celda(celda)
PasoHistorial(h) ==
    LET celda == CeldaHilo(h, hilos[h].hechas)
    IN  /\ hilos[h].pc = "historial"
        /\ hilos[h].hechas < MaxIngestasHilo
        /\ historial_mediciones' = AgregarMedicionCelda(historial_mediciones, celda)
        /\ registradas' = Poner(registradas, Clave(celda),
                                Append(Leer(registradas, Clave(celda)), celda))
        /\ hilos' = ConHilo(h, [hilos[h] EXCEPT !.pc = "ventana"])
        /\ UNCHANGED <<rastreo, calculo, estaciones_base, mediciones_actuales, trayectorias,
                       ubicaciones_estimadas, reloj, llamada, producidas,
                       n_llamadas, orden_ventanas>>

\* line 474: self.mediciones_actuales[imsi].append(celda)
PasoVentana(h) ==
    LET imsi == SujetoDe(h)
        celda == CeldaHilo(h, hilos[h].hechas)
    IN  /\ hilos[h].pc = "ventana"
        /\ mediciones_actuales' =
              Poner(mediciones_actuales, imsi,
                    Append(Leer(mediciones_actuales, imsi), celda))
        /\ orden_ventanas' = IF imsi \in DOMAIN mediciones_actuales
                             THEN orden_ventanas
                             ELSE Append(orden_ventanas, imsi)
        /\ hilos' = ConHilo(h, [hilos[h] EXCEPT !.pc = "estimar"])
        /\ UNCHANGED <<rastreo, calculo, estaciones_base, historial_mediciones, trayectorias,
                       ubicaciones_estimadas, reloj, llamada, registradas,
                       producidas, n_llamadas>>

\* lines 477-480: the estimation on the window as it is now
PasoEstimar(h) ==
    LET ventana == Leer(mediciones_actuales, SujetoDe(h))
        alcanza == "RSSI" \in Estimar(estaciones_base, ventana,
                                      FALSE, FALSE, reloj).invocados
    IN  /\ hilos[h].pc = "estimar"
        /\ \E exito \in IF alcanza THEN BOOLEAN \X BOOLEAN
                        ELSE {<<FALSE, FALSE>>} :
              hilos' = ConHilo(h,
                  [hilos[h] EXCEPT
                      !.pc = "registrar",
                      !.exitos = Append(@, exito),
                      !.ubicacion = Estimar(estaciones_base, ventana,
                                            exito[1], exito[2], reloj).ubicacion])
        /\ UNCHANGED <<rastreo, calculo, estaciones_base, historial_mediciones,
                       mediciones_actuales, trayectorias, ubicaciones_estimadas,
                       reloj, llamada, registradas, producidas, n_llamadas,
                       orden_ventanas>>

\* lines 482-484: the estimate goes to the estimate list and the trajectory
PasoRegistrar(h) ==
    LET imsi == SujetoDe(h)
        ubicacion == hilos[h].ubicacion
    IN  /\ hilos[h].pc = "registrar"
        /\ ubicaciones_estimadas' = ubicaciones_estimadas \o ubicacion
        /\ trayectorias' =
              IF ubicacion # None
              THEN ActualizarTrayectoria(trayectorias, imsi, ubicacion[1])
              ELSE trayectorias
        /\ producidas' = IF ubicacion # None
                         THEN Poner(producidas, imsi,
                                    Leer(producidas, imsi) \o ubicacion)
                         ELSE producidas
        /\ hilos' = ConHilo(h, [hilos[h] EXCEPT !.pc = "purga"])
        /\ UNCHANGED <<rastreo, calculo, estaciones_base, historial_mediciones,
                       mediciones_actuales, reloj, llamada, registradas,
                       n_llamadas, orden_ventanas>>

\* lines 497-498: the iterator over the keys of mediciones_actuales is made
PasoPurga(h) ==
    /\ hilos[h].pc = "purga"
    /\ hilos' = ConHilo(h, [hilos[h] EXCEPT !.pc = "siguiente", !.i = 1,
                                            !.tam = Len(orden_ventanas)])
    /\ UNCHANGED <<rastreo, calculo, estaciones_base, historial_mediciones, mediciones_actuales,
                   trayectorias, ubicaciones_estimadas, reloj, llamada,
                   registradas, producidas, n_llamadas, orden_ventanas>>

\* line 498, the iterator's next(): a key was inserted since the iterator was
\* made: "RuntimeError: dictionary changed size during iteration"
PasoErrorIteracion(h) ==
    /\ hilos[h].pc = "siguiente"
    /\ Len(orden_ventanas) # hilos[h].tam
    /\ hilos' = ConHilo(h, [hilos[h] EXCEPT !.pc = "excepcion"])
    /\ UNCHANGED <<rastreo, calculo, estaciones_base, historial_mediciones, mediciones_actuales,
                   trayectorias, ubicaciones_estimadas, reloj, llamada,
                   registradas, producidas, n_llamadas, orden_ventanas>>

\* lines 499-501: the list comprehension over the next key's window
PasoFiltrar(h) ==
    /\ hilos[h].pc = "siguiente"
    /\ Len(orden_ventanas) = hilos[h].tam
    /\ hilos[h].i <= hilos[h].tam
    /\ hilos' = ConHilo(h,
          [hilos[h] EXCEPT
              !.pc = "guardar",
              !.filtrada = SelectSeq(mediciones_actuales[orden_ventanas[hilos[h].i]],
                                     LAMBDA c : Reciente(c, reloj))])
    /\ UNCHANGED <<rastreo, calculo, estaciones_base, historial_mediciones, mediciones_actuales,
                   trayectorias, ubicaciones_estimadas, reloj, llamada,
                   registradas, producidas, n_llamadas, orden_ventanas>>

\* line 499: self.mediciones_actuales[imsi] = the filtered list
PasoGuardar(h) ==
    /\ hilos[h].pc = "guardar"
    /\ mediciones_actuales' = Poner(mediciones_actuales,
                                    orden_ventanas[hilos[h].i], hilos[h].filtrada)
    /\ hilos' = ConHilo(h, [hilos[h] EXCEPT !.pc = "siguiente", !.i = @ + 1,
                                            !.filtrada = <<>>])
    /\ UNCHANGED <<rastreo, calculo, estaciones_base, historial_mediciones, trayectorias,
                   ubicaciones_estimadas, reloj, llamada, registradas,
                   producidas, n_llamadas, orden_ventanas>>

\* line 498, the iterator is exhausted: the call returns
PasoRetorno(h) ==
    /\ hilos[h].pc = "siguiente"
    /\ Len(orden_ventanas) = hilos[h].tam
    /\ hilos[h].i > hilos[h].tam
    /\ hilos' = ConHilo(h, [hilos[h] EXCEPT !.pc = "historial",
                                            !.hechas = @ + 1,
                                            !.ubicacion = None,
                                            !.tam = 0, !.i = 0])
    /\ n_llamadas' = n_llamadas + 1
    /\ UNCHANGED <<rastreo, calculo, estaciones_base, historial_mediciones, mediciones_actuales,
                   trayectorias, ubicaciones_estimadas, reloj, llamada,
                   registradas, producidas, orden_ventanas>>

NextConcurrente ==
    \E h \in Hilos :
        \/ PasoHistorial(h)
        \/ PasoVentana(h)
        \/ PasoEstimar(h)
        \/ PasoRegistrar(h)
        \/ PasoPurga(h)
        \/ PasoErrorIteracion(h)
        \/ PasoFiltrar(h)
        \/ PasoGuardar(h)
        \/ PasoRetorno(h)

SpecConcurrente == InitConcurrente /\ [][NextConcurrente]_vars

\* ------------------------------- specification of the numerical routines
\* One evaluation of the two-cell interpolation, of the centroid or of the
\* combiner, on inputs drawn from small sets.

\* signal strengths handed to the routines
PotenciasCalculo == {-90, -60, 0, 30, 60}

\* distance between the two towers of the two-cell routine, in km
Separaciones == {4, 10}

\* precisions of the estimates handed to the combiner, in thousandths of a
\* km: 0.0, 0.001 and 1.0
PrecisionesCalculo == {0, 1, 1000}

\* coordinates of the i-th tower (or estimate) of a list
Torre(i) == [lat |-> (4 * i * i) % 11, lon |-> (7 * i) % 11]

\* the inputs of one evaluation of _estimar_ubicacion_2_celdas: two towers of
\* one meridian
EntradasDosCeldas ==
    {<<[celda |-> CeldaGSM(celda1, s1, 0), ubicacion |-> [lat |-> 0, lon |-> 0]],
       [celda |-> CeldaGSM(celda2, s2, 0), ubicacion |-> [lat |-> d, lon |-> 0]]>> :
        s1 \in PotenciasCalculo, s2 \in PotenciasCalculo, d \in Separaciones}

\* the inputs of one evaluation of _metodo_centroide: 2 to MaxPares resolved
\* pairs
EntradasCentroide ==
    UNION {{[i \in 1..k |-> [celda |-> CeldaGSM(IdentidadLargo(i - 1),
                                                potencias[i], 0),
                             ubicacion |-> Torre(i)]] :
               potencias \in [1..k -> PotenciasCalculo]} : k \in 2..MaxPares}

\* the inputs of one evaluation of _combinar_resultados: 1 to MaxPares
\* estimates
EntradasCombinacion ==
    UNION {{[i \in 1..k |-> [latitude |-> Torre(i).lat,
                             longitude |-> Torre(i).lon,
                             precision |-> precisiones[i]]] :
               precisiones \in [1..k -> PrecisionesCalculo]} : k \in 1..MaxPares}

\* a routine is about to be evaluated on its inputs
InitNumerico ==
    /\ estaciones_base = DirectorioVacio
    /\ historial_mediciones = << >>
    /\ mediciones_actuales = << >>
    /\ trayectorias = << >>
    /\ ubicaciones_estimadas = <<>>
    /\ reloj = 0
    /\ llamada = SinLlamada
    /\ registradas = << >>
    /\ producidas = << >>
    /\ n_llamadas = 0
    /\ hilos = << >>
    /\ orden_ventanas = <<>>
    /\ rastreador = SinRastreador
    /\ analizador_movil = SinAnalizador
    /\ \/ \E e \in EntradasDosCeldas :
             calculo = [op |-> "2_CELDAS", entradas |-> e, hecho |-> FALSE,
                        salida |-> <<>>]
       \/ \E e \in EntradasCentroide :
             calculo = [op |-> "CENTROIDE", entradas |-> e, hecho |-> FALSE,
                        salida |-> <<>>]
       \/ \E e \in EntradasCombinacion :
             calculo = [op |-> "COMBINADO", entradas |-> e, hecho |-> FALSE,
                        salida |-> <<>>]

\* _estimar_ubicacion_2_celdas, lines 245-264
CalcularDosCeldas ==
    /\ calculo.op = "2_CELDAS"
    /\ ~calculo.hecho
    /\ calculo' = [calculo EXCEPT
                      !.hecho = TRUE,
                      !.salida = PosicionDosCeldas(
                                     calculo.entradas[1].celda,
                                     calculo.entradas[1].ubicacion,
                                     calculo.entradas[2].celda,
                                     calculo.entradas[2].ubicacion)]
    /\ UNCHANGED <<motor, rastreo>>

\* _metodo_centroide
CalcularCentroide ==
    /\ calculo.op = "CENTROIDE"
    /\ ~calculo.hecho
    /\ calculo' = [calculo EXCEPT
                      !.hecho = TRUE,
                      !.salida = PosicionCentroide(calculo.entradas) @@
                                 [precision |->
                                     PrecisionCentroide(calculo.entradas)]]
    /\ UNCHANGED <<motor, rastreo>>

\* _combinar_resultados
CalcularCombinacion ==
    /\ calculo.op = "COMBINADO"
    /\ ~calculo.hecho
    /\ calculo' = [calculo EXCEPT !.hecho = TRUE,
                                  !.salida = Combinacion(calculo.entradas)]
    /\ UNCHANGED <<motor, rastreo>>

NextNumerico == CalcularDosCeldas \/ CalcularCentroide \/ CalcularCombinacion

SpecNumerico == InitNumerico /\ [][NextNumerico]_vars

\* ------------------------- specification of an engine that has run long
\* One subscriber has reported cell 1 every five minutes, LlamadasPrevias
\* times, and goes on doing so.  The initial state is the one these calls
\* leave on the empty engine: Tras(n) is the state after the n-th call, and
\* TLC finds TrasCadaLlamada invariant from any LlamadasPrevias on,
\* LlamadasPrevias = 0 (the empty engine) included.

\* the time of the k-th call (k counted from 0) and its measurement
HoraMil(k) == MINUTOS_VENTANA * k

CeldaMil(k) == CeldaGSM(celda1, -70, HoraMil(k))

\* the window the k-th call estimates on: the previous call's purge has left
\* the previous measurement only
VentanaMil(k) ==
    IF k = 0 THEN <<CeldaMil(0)>> ELSE <<CeldaMil(k - 1), CeldaMil(k)>>

\* what the k-th call's estimation step returns
EstimadoMil(k) ==
    Estimar(DirectorioCompleto, VentanaMil(k), FALSE, FALSE, HoraMil(k))

\* the estimates of the calls 1 .. n-1 (the call 0 has a window of one)
EstimadasMil(n) ==
    IF n < 2 THEN <<>> ELSE [k \in 1..(n - 1) |-> EstimadoMil(k).ubicacion[1]]

\* the state after n calls
Tras(n) ==
    [historial_mediciones |->
         IF n = 0 THEN << >>
         ELSE [c \in {Clave(celda1)} |->
                  Ultimos([k \in 1..n |-> CeldaMil(k - 1)], CAPACIDAD_HISTORIAL)],
     mediciones_actuales |->
         IF n = 0 THEN << >> ELSE [i \in {"A"} |-> <<CeldaMil(n - 1)>>],
     trayectorias |->
         IF n < 2 THEN << >>
         ELSE [i \in {"A"} |-> Ultimos(EstimadasMil(n), CAPACIDAD_TRAYECTORIA)],
     ubicaciones_estimadas |-> EstimadasMil(n),
     llamada |->
         IF n = 0 THEN SinLlamada
         ELSE [imsi |-> "A", celda |-> CeldaMil(n - 1), hora |-> HoraMil(n - 1),
               ventana |-> VentanaMil(n - 1),
               ubicacion |-> EstimadoMil(n - 1).ubicacion,
               invocados |-> EstimadoMil(n - 1).invocados,
               contribuyentes |-> EstimadoMil(n - 1).contribuyentes,
               rssi_ok |-> FALSE, toa_ok |-> FALSE],
     registradas |->
         IF n = 0 THEN << >>
         ELSE [c \in {Clave(celda1)} |-> [k \in 1..n |-> CeldaMil(k - 1)]],
     producidas |->
         IF n < 2 THEN << >> ELSE [i \in {"A"} |-> EstimadasMil(n)]]

InitMil ==
    LET e == Tras(LlamadasPrevias)
    IN  /\ estaciones_base = DirectorioCompleto
        /\ historial_mediciones = e.historial_mediciones
        /\ mediciones_actuales = e.mediciones_actuales
        /\ trayectorias = e.trayectorias
        /\ ubicaciones_estimadas = e.ubicaciones_estimadas
        /\ reloj = IF LlamadasPrevias = 0 THEN 0
                   ELSE HoraMil(LlamadasPrevias - 1)
        /\ llamada = e.llamada
        /\ registradas = e.registradas
        /\ producidas = e.producidas
        /\ n_llamadas = LlamadasPrevias
        /\ hilos = << >>
        /\ orden_ventanas = <<>>
        /\ rastreador = SinRastreador
        /\ analizador_movil = SinAnalizador
        /\ calculo = SinCalculo

IngerirMil ==
    /\ n_llamadas < LlamadasPrevias + MaxLlamadasMil
    /\ reloj = HoraMil(n_llamadas)
    /\ \E exito \in ResultadosOptimizador("A", CeldaMil(n_llamadas)) :
          ProcesarMedicionCelda("A", CeldaMil(n_llamadas), exito[1], exito[2])

AvanzarRelojMil ==
    /\ n_llamadas > 0
    /\ reloj = HoraMil(n_llamadas - 1)
    /\ reloj' = HoraMil(n_llamadas)
    /\ UNCHANGED <<rastreo, calculo, estaciones_base, historial_mediciones,
                   mediciones_actuales, trayectorias, ubicaciones_estimadas,
                   llamada, registradas, producidas, n_llamadas, concurrentes>>

NextMil == IngerirMil \/ AvanzarRelojMil

SpecMil == InitMil /\ [][NextMil]_vars

\* the state is the one the calls made so far leave on the empty engine
TrasCadaLlamada ==
    LET e == Tras(n_llamadas)
    IN  /\ historial_mediciones = e.historial_mediciones
        /\ mediciones_actuales = e.mediciones_actuales
        /\ trayectorias = e.trayectorias
        /\ ubicaciones_estimadas = e.ubicaciones_estimadas
        /\ llamada = e.llamada
        /\ registradas = e.registradas
        /\ producidas = e.producidas

\* ------------------------------------ specification of the window purge
\* Two subjects hand the engine measurements of any age: fresh ones, and
\* ones that were observed four, five or six minutes before the call (the
\* caller sets CeldaGSM.timestamp).  The directory is empty, so that no
\* estimate is produced and only the windows move.

\* age of a measurement when it is handed to the engine, in minutes
EdadesPurga == {0, 4, 5, 6}

InitPurga ==
    /\ estaciones_base = DirectorioVacio
    /\ historial_mediciones = << >>
    /\ mediciones_actuales = << >>
    /\ trayectorias = << >>
    /\ ubicaciones_estimadas = <<>>
    /\ reloj = 0
    /\ llamada = SinLlamada
    /\ registradas = << >>
    /\ producidas = << >>
    /\ n_llamadas = 0
    /\ hilos = << >>
    /\ orden_ventanas = <<>>
    /\ rastreador = SinRastreador
    /\ analizador_movil = SinAnalizador
    /\ calculo = SinCalculo

IngerirPurga ==
    /\ n_llamadas < MaxLlamadasPurga
    /\ \E imsi \in IMSIs, e \in EdadesPurga :
          ProcesarMedicionCelda(imsi, CeldaGSM(celda1, -70, reloj - e),
                                FALSE, FALSE)

\* a minute passes between two calls
AvanzarRelojPurga ==
    /\ reloj < MaxRelojPurga
    /\ reloj' = reloj + 1
    /\ UNCHANGED <<rastreo, calculo, estaciones_base, historial_mediciones,
                   mediciones_actuales, trayectorias, ubicaciones_estimadas,
                   llamada, registradas, producidas, n_llamadas, concurrentes>>

NextPurga == IngerirPurga \/ AvanzarRelojPurga

SpecPurga == InitPurga /\ [][NextPurga]_vars

\* --------------------------------------- specification of the read accessors
\* Between the calls of procesar_medicion_celda a reader asks for the
\* trajectory of a subject (one the engine has seen or not), for the cell
\* map, for a heat map, or for the whole report.  What an accessor returns
\* is recorded in calculo.

\* a subject the engine is never handed a measurement of
IMSIDesconocido == "Z"

\* d[k] of a defaultdict(list): a missing key is inserted with an empty list
Indexar(d, k) == IF k \in DOMAIN d THEN d ELSE Poner(d, k, <<>>)

\* MapeadorGSM.generar_mapa_heatmap
GenerarMapaHeatmap(ubicaciones) ==
    [i \in 1..Len(ubicaciones) |->
        [metodo |-> ubicaciones[i].metodo,
         timestamp |-> ubicaciones[i].timestamp]]

\* MapeadorGSM.generar_mapa_celdas: one feature for each key of the history
\* whose last measurement has a known tower
GenerarMapaCeldas(historial, base) ==
    {LET celda == historial[k][Len(historial[k])]
     IN  [mcc |-> celda.mcc, mnc |-> celda.mnc, lac |-> celda.lac,
          cell_id |-> celda.cell_id,
          signal_strength |-> celda.signal_strength,
          coordinates |-> ObtenerUbicacionCelda(base, celda)[1]] :
        k \in {c \in DOMAIN historial :
                  /\ historial[c] # <<>>
                  /\ ObtenerUbicacionCelda(
                         base, historial[c][Len(historial[c])]) # None}}

\* the FeatureCollection of generar_trayectoria_imsi, lines 413-451
Trayectoria(tray, imsi) ==
    [puntos |-> [i \in 1..Len(tray[imsi]) |->
                    [timestamp |-> tray[imsi][i].timestamp, orden |-> i - 1]],
     linea |-> IF Len(tray[imsi]) > 1
               THEN Some([imsi |-> imsi, num_puntos |-> Len(tray[imsi])])
               ELSE None]

\* variant of generar_trayectoria_imsi without the test of line 410: the
\* subscript of line 419 is evaluated for any subject
GenerarTrayectoriaImsi_SinGuarda(tray, imsi) ==
    [trayectorias |-> Indexar(tray, imsi),
     salida |-> Some(Trayectoria(Indexar(tray, imsi), imsi))]

\* MapeadorGSM.generar_trayectoria_imsi: the trajectories after the call and
\* the value returned ({} is None)
GenerarTrayectoriaImsi(tray, imsi) ==
    IF imsi \notin DOMAIN tray
    THEN [trayectorias |-> tray, salida |-> None]
    ELSE [trayectorias |-> Indexar(tray, imsi),
          salida |-> Some(Trayectoria(Indexar(tray, imsi), imsi))]

\* u.timestamp.date(): a day has 1440 minutes
Fecha(minuto) == minuto \div 1440

\* AnalizadorGSMAvanzado.generar_reportes_ubicacion (the mean precision is
\* left out: the engine's estimates carry no precision in this model)
GenerarReportesUbicacion ==
    [total_ubicaciones |-> Len(ubicaciones_estimadas),
     ubicaciones_hoy |->
         Cardinality({i \in 1..Len(ubicaciones_estimadas) :
                         Fecha(ubicaciones_estimadas[i].timestamp)
                             = Fecha(reloj)}),
     metodos_utilizados |->
         {ubicaciones_estimadas[i].metodo : i \in 1..Len(ubicaciones_estimadas)},
     mapa_heatmap |->
         GenerarMapaHeatmap(Ultimos(ubicaciones_estimadas,
                                    CAPACIDAD_ESTIMACIONES)),
     mapa_celdas |-> GenerarMapaCeldas(historial_mediciones, estaciones_base),
     imsi_activos |-> [i \in DOMAIN trayectorias |-> Len(trayectorias[i])]]

InitLectura ==
    /\ estaciones_base = DirectorioParcial
    /\ historial_mediciones = << >>
    /\ mediciones_actuales = << >>
    /\ trayectorias = << >>
    /\ ubicaciones_estimadas = <<>>
    /\ reloj = 0
    /\ llamada = SinLlamada
    /\ registradas = << >>
    /\ producidas = << >>
    /\ n_llamadas = 0
    /\ hilos = << >>
    /\ orden_ventanas = <<>>
    /\ rastreador = SinRastreador
    /\ analizador_movil = SinAnalizador
    /\ calculo = SinCalculo

IngerirLectura ==
    /\ n_llamadas < MaxLlamadasLectura
    /\ \E imsi \in IMSIs, id \in {celda1, celda2, celda3} :
          LET celda == CeldaGSM(id, -70, reloj)
          IN  \E exito \in ResultadosOptimizador(imsi, celda) :
                  ProcesarMedicionCelda(imsi, celda, exito[1], exito[2])

\* what every accessor leaves alone: the clock, the directory, the history
\* variables
SoloLectura ==
    UNCHANGED <<rastreo, estaciones_base, reloj, llamada, registradas,
                producidas, n_llamadas, concurrentes>>

\* a reader calls mapeador.generar_trayectoria_imsi(imsi)
LeerTrayectoria ==
    \E imsi \in IMSIs \cup {IMSIDesconocido} :
        LET r == GenerarTrayectoriaImsi(trayectorias, imsi)
        IN  /\ trayectorias' = r.trayectorias
            /\ calculo' = [op |-> "generar_trayectoria_imsi",
                           entradas |-> imsi, hecho |-> TRUE,
                           salida |-> r.salida]
            /\ UNCHANGED <<historial_mediciones, mediciones_actuales,
                           ubicaciones_estimadas>>
            /\ SoloLectura

\* a reader calls mapeador.generar_mapa_celdas()
LeerMapaCeldas ==
    /\ calculo' = [op |-> "generar_mapa_celdas", entradas |-> <<>>,
                   hecho |-> TRUE,
                   salida |-> GenerarMapaCeldas(historial_mediciones,
                                                estaciones_base)]
    /\ UNCHANGED <<historial_mediciones, mediciones_actuales, trayectorias,
                   ubicaciones_estimadas>>
    /\ SoloLectura

\* a reader calls mapeador.generar_mapa_heatmap(analizador.ubicaciones_estimadas)
LeerMapaHeatmap ==
    /\ calculo' = [op |-> "generar_mapa_heatmap", entradas |-> <<>>,
                   hecho |-> TRUE,
                   salida |-> GenerarMapaHeatmap(ubicaciones_estimadas)]
    /\ UNCHANGED <<historial_mediciones, mediciones_actuales, trayectorias,
                   ubicaciones_estimadas>>
    /\ SoloLectura

\* a reader calls analizador.generar_reportes_ubicacion()
LeerReportes ==
    /\ calculo' = [op |-> "generar_reportes_ubicacion", entradas |-> <<>>,
                   hecho |-> TRUE, salida |-> GenerarReportesUbicacion]
    /\ UNCHANGED <<historial_mediciones, mediciones_actuales, trayectorias,
                   ubicaciones_estimadas>>
    /\ SoloLectura

NextLectura ==
    \/ IngerirLectura
    \/ LeerTrayectoria
    \/ LeerMapaCeldas
    \/ LeerMapaHeatmap
    \/ LeerReportes

SpecLectura == InitLectura /\ [][NextLectura]_vars

\* ------------------------------------ specification of the IMSI tracker
\* The packet callback of imsi.py (mostrar_imsi) or of imsi-2.py (show_imsi)
\* is called with any identities a packet can carry.  An IMSI is a sequence
\* of characters, "" is the empty sequence; a TMSI is a string.  The lines
\* the callback prints are not modelled.  imsi-2.py names the globals imsis,
\* tmsis, nb_IMSI, imsi_to_track and show_all_tmsi.

\* the identities packets carry
IMSIsRastreador == {<<"2", "1">>, <<"3", "1">>}
TMSIsRastreador == {"a", "b"}

\* the -m option: none, or a prefix to follow
Seguimientos == {<<>>, <<"2">>}

\* the values of a list
Valores(lista) == {lista[i] : i \in 1..Len(lista)}

\* del d[k]
Quitar(d, k) == [x \in DOMAIN d \ {k} |-> d[x]]

\* imsi[:n]
Prefijo(imsi, n) == SubSeq(imsi, 1, IF n < Len(imsi) THEN n ELSE Len(imsi))

\* imsi and (not imsi_a_seguir or imsi[:longitud_imsi_seguir] == imsi_a_seguir)
Seguido(r, imsi) ==
    /\ imsi # <<>>
    /\ \/ r.imsi_a_seguir = <<>>
       \/ Prefijo(imsi, Len(r.imsi_a_seguir)) = r.imsi_a_seguir

\* lines 110-112: one TMSI is associated with the IMSI
Asociar(r, tmsi, imsi) ==
    IF /\ tmsi # ""
       /\ \/ tmsi \notin DOMAIN r.tmsis_asociados
          \/ r.tmsis_asociados[tmsi] # imsi
    THEN [r EXCEPT !.tmsis_asociados = Poner(@, tmsi, imsi)]
    ELSE r

\* variant of lines 101-112 that associates the TMSIs of a packet whether or
\* not its IMSI is the one followed
ProcesarImsi_AsociaSiempre(r, imsi, tmsi1, tmsi2) ==
    IF imsi = <<>> THEN r
    ELSE LET r1 == IF Seguido(r, imsi) /\ imsi \notin Valores(r.imsis_detectados)
                   THEN [r EXCEPT !.imsis_detectados = Append(@, imsi),
                                  !.contador_imsi = @ + 1]
                   ELSE r
         IN  Asociar(Asociar(r1, tmsi1, imsi), tmsi2, imsi)

\* lines 101-112 (and 115-125; imsi-2.py lines 88-99 and 101-112): one IMSI of
\* the packet
ProcesarImsi(r, imsi, tmsi1, tmsi2) ==
    IF ~Seguido(r, imsi) THEN r
    ELSE LET r1 == IF imsi \notin Valores(r.imsis_detectados)
                   THEN [r EXCEPT !.imsis_detectados = Append(@, imsi),
                                  !.contador_imsi = @ + 1]
                   ELSE r
         IN  Asociar(Asociar(r1, tmsi1, imsi), tmsi2, imsi)

\* lines 128-133 (imsi-2.py lines 114-119): the TMSI reallocation; imsi1 is
\* the local variable after the block
Reasignar(r, imsi1, imsi2, tmsi1, tmsi2) ==
    IF /\ imsi1 = <<>> /\ imsi2 = <<>> /\ tmsi1 # "" /\ tmsi2 # ""
       /\ tmsi2 \in DOMAIN r.tmsis_asociados
    THEN [r |-> [r EXCEPT !.tmsis_asociados =
                     Quitar(Poner(@, tmsi1, @[tmsi2]), tmsi2)],
          imsi1 |-> r.tmsis_asociados[tmsi2]]
    ELSE [r |-> r, imsi1 |-> imsi1]

\* lines 146-147: a TMSI without IMSI is registered
SinImsi(r, tmsi) ==
    IF tmsi # "" /\ tmsi \notin DOMAIN r.tmsis_asociados
    THEN [r EXCEPT !.tmsis_asociados = Poner(@, tmsi, <<>>)]
    ELSE r

\* imsi.py, lines 144-147
MostrarTodos(r, imsi1, imsi2, tmsi1, tmsi2) ==
    IF imsi1 = <<>> /\ imsi2 = <<>> /\ r.mostrar_todos_tmsi
    THEN SinImsi(SinImsi(r, tmsi1), tmsi2)
    ELSE r

\* imsi-2.py, lines 130-137: the second test reads tmsi1 again
ShowAll(r, imsi1, imsi2, tmsi1, tmsi2) ==
    IF imsi1 = <<>> /\ imsi2 = <<>> /\ r.mostrar_todos_tmsi
    THEN LET r1 == SinImsi(r, tmsi1)
         IN  IF tmsi1 # "" /\ tmsi1 \notin DOMAIN r1.tmsis_asociados
             THEN [r1 EXCEPT !.tmsis_asociados = Poner(@, tmsi2, <<>>)]
             ELSE r1
    ELSE r

\* mostrar_imsi of imsi.py, show_imsi of imsi-2.py
MostrarImsi(r, imsi1, imsi2, tmsi1, tmsi2) ==
    LET r1 == ProcesarImsi(r, imsi1, tmsi1, tmsi2)
        r2 == ProcesarImsi(r1, imsi2, tmsi1, tmsi2)
        r3 == Reasignar(r2, imsi1, imsi2, tmsi1, tmsi2)
        r4 == IF r.programa = "imsi.py"
              THEN MostrarTodos(r3.r, r3.imsi1, imsi2, tmsi1, tmsi2)
              ELSE ShowAll(r3.r, r3.imsi1, imsi2, tmsi1, tmsi2)
    IN  [r4 EXCEPT !.llamada = [imsi1 |-> imsi1, imsi2 |-> imsi2,
                                tmsi1 |-> tmsi1, tmsi2 |-> tmsi2]]

\* the globals when sniff() starts: main() has set the options
InitRastreador ==
    /\ estaciones_base = DirectorioVacio
    /\ historial_mediciones = << >>
    /\ mediciones_actuales = << >>
    /\ trayectorias = << >>
    /\ ubicaciones_estimadas = <<>>
    /\ reloj = 0
    /\ llamada = SinLlamada
    /\ registradas = << >>
    /\ producidas = << >>
    /\ n_llamadas = 0
    /\ hilos = << >>
    /\ orden_ventanas = <<>>
    /\ calculo = SinCalculo
    /\ analizador_movil = SinAnalizador
    /\ \E programa \in {"imsi.py", "imsi-2.py"}, seguir \in Seguimientos,
          todos \in BOOLEAN :
          rastreador = [SinRastreador EXCEPT !.programa = programa,
                                             !.imsi_a_seguir = seguir,
                                             !.mostrar_todos_tmsi = todos]

\* a packet arrives: buscar_imsi calls mostrar_imsi (find_imsi, show_imsi)
PaqueteRastreador ==
    /\ \E imsi1 \in IMSIsRastreador \cup {<<>>},
          imsi2 \in IMSIsRastreador \cup {<<>>},
          tmsi1 \in TMSIsRastreador \cup {""},
          tmsi2 \in TMSIsRastreador \cup {""} :
          rastreador' = MostrarImsi(rastreador, imsi1, imsi2, tmsi1, tmsi2)
    /\ UNCHANGED <<motor, calculo, analizador_movil>>

NextRastreador == PaqueteRastreador

SpecRastreador == InitRastreador /\ [][NextRastreador]_vars

\* ----------------------------- specification of the behaviour analyser
\* analizar_comportamiento_sospechoso of imsi-3.py is called for events of two
\* subscribers.  The calls are serialised by self.lock.  datetime.now() is the
\* local wall clock: between two calls it advances, or is set back (a clock
\* correction, the end of daylight saving time).  Each subscriber is seen in
\* a new cell at each event until it has been seen in CeldasRecorridas cells.

\* the cells a subscriber moves through
CeldasRecorridas == 6

\* minutes the clock advances, or is set back, between two calls
AvancesAnalizador == {5}

RECURSIVE MantenerRecientes(_, _)
\* lines 110-112: popleft() while the oldest entry is more than 5 minutes old
MantenerRecientes(cola, ahora) ==
    IF cola # <<>> /\ ahora - Head(cola) > MINUTOS_REASIGNACION
    THEN MantenerRecientes(Tail(cola), ahora)
    ELSE cola

\* _generar_alerta: the entry appended to self.alertas
Alerta(tipo, severidad, cuenta, imsi, ahora) ==
    [timestamp |-> ahora, tipo |-> tipo, severidad |-> severidad,
     descripcion |-> cuenta, imsi |-> imsi]

\* lines 114-130: the alerts one call raises, in order
AlertasDeEvento(cola, celdas, imsi, ahora) ==
    (IF Len(cola) > UMBRAL_REASIGNACIONES
     THEN <<Alerta("REASIGNACION_TMSI_RAPIDA", "ALTA", Len(cola), imsi, ahora)>>
     ELSE <<>>)
    \o (IF Cardinality(celdas) > UMBRAL_CELDAS
        THEN <<Alerta("IMSI_HOPPING", "MEDIA", Cardinality(celdas), imsi, ahora)>>
        ELSE <<>>)

\* analizar_comportamiento_sospechoso, with the _generar_alerta calls it makes
AnalizarComportamientoSospechoso(a, imsi, lac, cell_id, ahora) ==
    LET cola == MantenerRecientes(
                    Append(Leer(a.reasignaciones_rapidas, imsi), ahora), ahora)
        celdas == (IF imsi \in DOMAIN a.imsi_hopping
                   THEN a.imsi_hopping[imsi] ELSE {}) \cup {<<lac, cell_id>>}
        nuevas == AlertasDeEvento(cola, celdas, imsi, ahora)
    IN  [a EXCEPT
            !.reasignaciones_rapidas = Poner(@, imsi, cola),
            !.imsi_hopping = Poner(@, imsi, celdas),
            !.alertas = @ \o nuevas,
            !.tabla_alertas =
                @ \o [i \in 1..Len(nuevas) |->
                         [tipo_alerta |-> nuevas[i].tipo,
                          severidad |-> nuevas[i].severidad,
                          descripcion |-> nuevas[i].descripcion,
                          imsi_involucrado |-> nuevas[i].imsi]],
            !.eventos = @ + 1,
            !.llamada = [imsi |-> imsi, hora |-> ahora, alertas |-> nuevas]]

InitAnalizador ==
    /\ estaciones_base = DirectorioVacio
    /\ historial_mediciones = << >>
    /\ mediciones_actuales = << >>
    /\ trayectorias = << >>
    /\ ubicaciones_estimadas = <<>>
    /\ reloj = 0
    /\ llamada = SinLlamada
    /\ registradas = << >>
    /\ producidas = << >>
    /\ n_llamadas = 0
    /\ hilos = << >>
    /\ orden_ventanas = <<>>
    /\ calculo = SinCalculo
    /\ rastreador = SinRastreador
    /\ analizador_movil = SinAnalizador

\* what the analyser never touches
SinMotor ==
    UNCHANGED <<estaciones_base, historial_mediciones, mediciones_actuales,
                trayectorias, ubicaciones_estimadas, llamada, registradas,
                producidas, n_llamadas, concurrentes, calculo, rastreador>>

\* an event of a subscriber is handed to the analyser
EventoAnalizador ==
    /\ analizador_movil.eventos < MaxEventos
    /\ \E imsi \in IMSIs :
          LET vistas == IF imsi \in DOMAIN analizador_movil.imsi_hopping
                        THEN Cardinality(analizador_movil.imsi_hopping[imsi])
                        ELSE 0
          IN  analizador_movil' =
                  AnalizarComportamientoSospechoso(
                      analizador_movil, imsi, "1", vistas % CeldasRecorridas, reloj)
    /\ reloj' = reloj
    /\ SinMotor

\* time passes between two calls
AvanzarRelojAnalizador ==
    /\ \E d \in AvancesAnalizador :
          reloj + d <= MaxRelojAnalizador /\ reloj' = reloj + d
    /\ analizador_movil' = analizador_movil
    /\ SinMotor

\* the wall clock is set back between two calls
RetrocederRelojAnalizador ==
    /\ analizador_movil.retrocesos < MaxRetrocesos
    /\ \E d \in AvancesAnalizador : reloj - d >= 0 /\ reloj' = reloj - d
    /\ analizador_movil' = [analizador_movil EXCEPT !.retrocesos = @ + 1]
    /\ SinMotor

NextAnalizador ==
    \/ EventoAnalizador
    \/ AvanzarRelojAnalizador
    \/ RetrocederRelojAnalizador

SpecAnalizador == InitAnalizador /\ [][NextAnalizador]_vars

\* ------------------------------------------------------------------ claims

\* C1: every cell key's measurement history holds at most 50 entries, in
\* insertion order, and they are exactly the 50 most recently recorded
\* measurements for that key.
C1_HistorialUltimas50 ==
    /\ DOMAIN historial_mediciones = DOMAIN registradas
    /\ \A k \in DOMAIN registradas :
          /\ Len(historial_mediciones[k]) <= CAPACIDAD_HISTORIAL
          /\ historial_mediciones[k] = Ultimos(registradas[k], CAPACIDAD_HISTORIAL)

\* C1 witness: 51 measurements were recorded for one key, its history holds
\* 50 and the first-inserted one is the one that is gone.
C1_Testigo ==
    \E k \in DOMAIN registradas :
        /\ Len(registradas[k]) = CAPACIDAD_HISTORIAL + 1
        /\ Len(historial_mediciones[k]) = CAPACIDAD_HISTORIAL
        /\ historial_mediciones[k][1] = registradas[k][2]
        /\ registradas[k][1] # registradas[k][2]
        /\ \A i \in 1..CAPACIDAD_HISTORIAL :
              historial_mediciones[k][i] # registradas[k][1]

\* C2: every subject's trajectory holds at most 100 estimates, the oldest
\* evicted first, in the order in which the estimates were produced (never
\* re-sorted by timestamp).
C2_TrayectoriaUltimas100 ==
    /\ DOMAIN trayectorias = DOMAIN producidas
    /\ \A i \in DOMAIN producidas :
          /\ Len(trayectorias[i]) <= CAPACIDAD_TRAYECTORIA
          /\ trayectorias[i] = Ultimos(producidas[i], CAPACIDAD_TRAYECTORIA)

\* C2 witness: 101 estimates were produced for one subject, the first one is
\* evicted, and two consecutive estimates were produced with decreasing
\* timestamps.
C2_Testigo ==
    \E i \in DOMAIN producidas :
        /\ Len(producidas[i]) = CAPACIDAD_TRAYECTORIA + 1
        /\ Len(trayectorias[i]) = CAPACIDAD_TRAYECTORIA
        /\ trayectorias[i][1] = producidas[i][2]
        /\ producidas[i][1] # producidas[i][2]
        /\ \E j \in 1..(Len(producidas[i]) - 1) :
              producidas[i][j].timestamp > producidas[i][j + 1].timestamp

\* the step is a procesar_medicion_celda call
EsLlamada == n_llamadas' = n_llamadas + 1

\* how many measurements of a window resolve in the directory
Resueltas(ventana) == Len(CeldasConUbicacion(estaciones_base, ventana))

\* the measurements of a window that are not older than 5 minutes at `hora`
NoAntiguas(ventana, hora) ==
    SelectSeq(ventana, LAMBDA c : hora - c.timestamp <= MINUTOS_VENTANA)

\* C3: no estimate that a call produces uses a measurement whose timestamp
\* is more than 5 minutes before that call's time (the purge comes before the
\* estimation attempt).
C3_PurgaAntesDeEstimar ==
    llamada.ubicacion # None =>
        \A i \in 1..Len(llamada.ubicacion[1].celdas_utilizadas) :
            llamada.hora - llamada.ubicacion[1].celdas_utilizadas[i].timestamp
                <= MINUTOS_VENTANA

\* C4: a call whose window, after the append and with the entries older than
\* 5 minutes discounted, holds fewer than 2 measurements yields no estimate
\* and leaves the trajectories and the estimate list unchanged.
C4_SinEstimacionBajoDos ==
    [][(EsLlamada /\ Len(NoAntiguas(llamada'.ventana, llamada'.hora)) < MINIMO_CELDAS)
        => /\ llamada'.ubicacion = None
           /\ trayectorias' = trayectorias
           /\ ubicaciones_estimadas' = ubicaciones_estimadas]_vars

\* three calls, for one subject, with three distinct cells that all resolve,
\* all within one minute, on an engine that was empty
C5_Escenario ==
    /\ n_llamadas = 3
    /\ DOMAIN mediciones_actuales = {llamada.imsi}
    /\ Cardinality(DOMAIN registradas) = 3
    /\ DOMAIN registradas \subseteq DOMAIN estaciones_base
    /\ \A k1 \in DOMAIN registradas, k2 \in DOMAIN registradas :
          /\ Len(registradas[k1]) = 1
          /\ registradas[k1][1].timestamp - registradas[k2][1].timestamp <= 1
          /\ llamada.hora - registradas[k1][1].timestamp \in {0, 1}

\* C5 as stated: after the scenario the subject's trajectory has length
\* exactly 1 and that estimate's method is COMBINADO.
C5_TrayectoriaDeUno ==
    C5_Escenario =>
        /\ Len(Leer(trayectorias, llamada.imsi)) = 1
        /\ trayectorias[llamada.imsi][1].metodo = "COMBINADO"

\* C5 amended: after the scenario the subject's trajectory has length exactly
\* 2: the 2_CELDAS estimate of the second call, then the COMBINADO estimate
\* of the third.
C5_TrayectoriaDeDos ==
    C5_Escenario =>
        /\ Len(Leer(trayectorias, llamada.imsi)) = 2
        /\ trayectorias[llamada.imsi][1].metodo = "2_CELDAS"
        /\ trayectorias[llamada.imsi][2].metodo = "COMBINADO"
        /\ trayectorias[llamada.imsi][2] = llamada.ubicacion[1]

\* C5 witness: the scenario has happened and left two estimates.
C5_Testigo ==
    C5_Escenario /\ Len(Leer(trayectorias, llamada.imsi)) = 2

\* C6: a call that estimates on a window of exactly 2 measurements runs the
\* two-cell fallback only; if both cells resolve, the 2_CELDAS estimate
\* becomes the subject's newest trajectory entry; if fewer than 2 resolve, no
\* estimate is produced and the trajectories are unchanged.
C6_SoloDosCeldas ==
    [][(EsLlamada /\ Len(llamada'.ventana) = 2)
        => /\ llamada'.invocados = {"2_CELDAS"}
           /\ IF Resueltas(llamada'.ventana) = 2
              THEN /\ Len(llamada'.ubicacion) = 1
                   /\ llamada'.ubicacion[1].metodo = "2_CELDAS"
                   /\ llamada'.ubicacion[1].celdas_utilizadas = llamada'.ventana
                   /\ trayectorias'[llamada'.imsi] =
                         Ultimos(Append(Leer(trayectorias, llamada'.imsi),
                                        llamada'.ubicacion[1]),
                                 CAPACIDAD_TRAYECTORIA)
              ELSE /\ llamada'.ubicacion = None
                   /\ trayectorias' = trayectorias
                   /\ ubicaciones_estimadas' = ubicaciones_estimadas]_vars

\* C6 witness: a call on a window of 2 resolved measurements has produced a
\* 2_CELDAS estimate, now the newest entry of the subject's trajectory.
C6_Testigo ==
    /\ n_llamadas > 0
    /\ Len(llamada.ventana) = 2
    /\ Resueltas(llamada.ventana) = 2
    /\ llamada.ubicacion # None
    /\ trayectorias[llamada.imsi][Len(trayectorias[llamada.imsi])]
          = llamada.ubicacion[1]

\* C7: a call on a window of 3 or more measurements of which fewer than 2
\* resolve produces no estimate and appends nothing to the trajectories or
\* to the estimate list.
C7_MenosDeDosResueltas ==
    [][(EsLlamada /\ Len(llamada'.ventana) >= 3
                  /\ Resueltas(llamada'.ventana) < 2)
        => /\ llamada'.ubicacion = None
           /\ trayectorias' = trayectorias
           /\ ubicaciones_estimadas' = ubicaciones_estimadas]_vars

\* C7 witness: a call on a window of 3 measurements, one of which resolves.
C7_Testigo ==
    /\ n_llamadas > 0
    /\ Len(llamada.ventana) >= 3
    /\ Resueltas(llamada.ventana) = 1
    /\ llamada.ubicacion = None

\* C8: a call on a window of 3 or more measurements of which at least 2
\* resolve produces exactly one estimate, of method COMBINADO, and appends it
\* to the estimate list and to the subject's trajectory, whatever the
\* optimizers' outcomes.
C8_SiempreCombinado ==
    [][(EsLlamada /\ Len(llamada'.ventana) >= 3
                  /\ Resueltas(llamada'.ventana) >= 2)
        => /\ Len(llamada'.ubicacion) = 1
           /\ llamada'.ubicacion[1].metodo = "COMBINADO"
           /\ ubicaciones_estimadas' =
                 Append(ubicaciones_estimadas, llamada'.ubicacion[1])
           /\ trayectorias'[llamada'.imsi] =
                 Ultimos(Append(Leer(trayectorias, llamada'.imsi),
                                llamada'.ubicacion[1]),
                         CAPACIDAD_TRAYECTORIA)]_vars

\* C8 witness: such a call in which both optimizers failed: the combined
\* estimate carries the centroid's measurements only.
C8_Testigo ==
    /\ n_llamadas > 0
    /\ Len(llamada.ventana) >= 3
    /\ Resueltas(llamada.ventana) >= 2
    /\ llamada.ubicacion # None
    /\ llamada.ubicacion[1].metodo = "COMBINADO"
    /\ Len(llamada.ubicacion[1].celdas_utilizadas) = Resueltas(llamada.ventana)

\* C9: with an empty directory no call yields an estimate: the trajectories
\* and the estimate list stay empty, while the measurement history and the
\* subject's window are still updated.
C9_DirectorioVacio ==
    DOMAIN estaciones_base = {} =>
        /\ DOMAIN trayectorias = {}
        /\ ubicaciones_estimadas = <<>>
        /\ llamada.ubicacion = None
        /\ n_llamadas > 0 =>
              /\ Clave(llamada.celda) \in DOMAIN historial_mediciones
              /\ historial_mediciones[Clave(llamada.celda)]
                    [Len(historial_mediciones[Clave(llamada.celda)])] = llamada.celda
              /\ llamada.imsi \in DOMAIN mediciones_actuales
              /\ mediciones_actuales[llamada.imsi] =
                    SelectSeq(llamada.ventana,
                              LAMBDA c : Reciente(c, llamada.hora))

\* C9 witness: three calls for one subject with an empty directory, the
\* last one on a window of 3 measurements.
C9_Testigo ==
    /\ DOMAIN estaciones_base = {}
    /\ n_llamadas = 3
    /\ Len(llamada.ventana) = 3
    /\ Len(mediciones_actuales[llamada.imsi]) = 3

\* an identifier field (mcc, mnc, lac, cell_id) is empty
Malformada(celda) ==
    celda.mcc = "" \/ celda.mnc = "" \/ celda.lac = "" \/ celda.cell_id = ""

\* C10: a call whose measurement has malformed identifier fields is
\* rejected: the measurement history, every window, every trajectory and the
\* estimate list are as they were before the call.
C10_MalformadaRechazada ==
    [][(EsLlamada /\ Malformada(llamada'.celda))
        => UNCHANGED <<historial_mediciones, mediciones_actuales,
                       trayectorias, ubicaciones_estimadas>>]_vars

\* the methods whose estimators succeeded in a call, in the order of lines
\* 87-99; the centroid always does
Exitosos(rssi_ok, toa_ok) ==
    (IF rssi_ok THEN <<"RSSI">> ELSE <<>>)
    \o (IF toa_ok THEN <<"TOA">> ELSE <<>>)
    \o <<"CENTROIDE">>

\* the resolved measurements of a window, in window order
CeldasResueltas(ventana) == SoloCeldas(CeldasConUbicacion(estaciones_base, ventana))

\* C11: in a call that reaches the estimators, a failure of the RSSI or of
\* the TOA estimator is absence for that estimator only: all three estimators
\* are invoked, the call completes (history, window, estimate list and
\* trajectory are updated), and the combined estimate is built from exactly
\* the estimators that succeeded.
C11_FalloEsAusencia ==
    [][(EsLlamada /\ "RSSI" \in llamada'.invocados)
        => /\ {"RSSI", "TOA", "CENTROIDE"} \subseteq llamada'.invocados
           /\ llamada'.contribuyentes =
                 Exitosos(llamada'.rssi_ok, llamada'.toa_ok)
           /\ Len(llamada'.ubicacion) = 1
           /\ llamada'.ubicacion[1].metodo = "COMBINADO"
           /\ Len(llamada'.ubicacion[1].celdas_utilizadas) =
                 Len(Exitosos(llamada'.rssi_ok, llamada'.toa_ok))
                     * Resueltas(llamada'.ventana)
           /\ Len(registradas'[Clave(llamada'.celda)]) =
                 Len(Leer(registradas, Clave(llamada'.celda))) + 1
           /\ mediciones_actuales'[llamada'.imsi] =
                 SelectSeq(llamada'.ventana,
                           LAMBDA c : Reciente(c, llamada'.hora))
           /\ ubicaciones_estimadas' =
                 Append(ubicaciones_estimadas, llamada'.ubicacion[1])
           /\ trayectorias'[llamada'.imsi] =
                 Ultimos(Append(Leer(trayectorias, llamada'.imsi),
                                llamada'.ubicacion[1]),
                         CAPACIDAD_TRAYECTORIA)]_vars

\* C11 witness: a call in which the RSSI estimator failed and the TOA
\* estimator succeeded; the estimate is built from TOA and the centroid.
C11_Testigo ==
    /\ n_llamadas > 0
    /\ "RSSI" \in llamada.invocados
    /\ ~llamada.rssi_ok
    /\ llamada.toa_ok
    /\ llamada.contribuyentes = <<"TOA", "CENTROIDE">>
    /\ llamada.ubicacion # None

\* C12: a call for subject A leaves every other subject's window and
\* trajectory as they were before the call.
C12_SoloElSujeto ==
    [][EsLlamada
        => \A b \in DOMAIN mediciones_actuales \ {llamada'.imsi} :
              /\ mediciones_actuales'[b] = mediciones_actuales[b]
              /\ Leer(trayectorias', b) = Leer(trayectorias, b)]_vars

RECURSIVE Repetir(_, _)
\* a list written k times in a row
Repetir(lista, k) == IF k = 0 THEN <<>> ELSE lista \o Repetir(lista, k - 1)

\* C19: a combined estimate's celdas_utilizadas is the concatenation, in the
\* order RSSI, TOA, centroid, of the measurement lists of the estimates that
\* contributed, with nothing removed: k contributing estimators over n
\* resolved measurements give k*n entries.
C19_ConcatenacionSinDeduplicar ==
    [][(EsLlamada /\ llamada'.ubicacion # None
                  /\ llamada'.ubicacion[1].metodo = "COMBINADO")
        => /\ llamada'.contribuyentes \in
                 {<<"CENTROIDE">>, <<"RSSI", "CENTROIDE">>,
                  <<"TOA", "CENTROIDE">>, <<"RSSI", "TOA", "CENTROIDE">>}
           /\ llamada'.ubicacion[1].celdas_utilizadas =
                 Repetir(CeldasResueltas(llamada'.ventana),
                         Len(llamada'.contribuyentes))
           /\ Len(llamada'.ubicacion[1].celdas_utilizadas) =
                 Len(llamada'.contribuyentes) * Resueltas(llamada'.ventana)]_vars

\* C19 witness: three estimators contributed over a window of which two
\* measurements resolve and one does not: six entries, each resolved
\* measurement three times.
C19_Testigo ==
    /\ n_llamadas > 0
    /\ llamada.contribuyentes = <<"RSSI", "TOA", "CENTROIDE">>
    /\ Len(llamada.ventana) = 3
    /\ Resueltas(llamada.ventana) = 2
    /\ Len(llamada.ubicacion[1].celdas_utilizadas) = 6
    /\ llamada.ubicacion[1].celdas_utilizadas[1] =
          llamada.ubicacion[1].celdas_utilizadas[3]

\* every thread has returned from all its calls
Terminado == \A h \in Hilos : hilos[h].hechas = MaxIngestasHilo

\* the orders in which the threads' calls can be made one after another
Ordenes ==
    {o \in [1..(MaxIngestasHilo * Cardinality(Hilos)) -> Hilos] :
        \A h \in Hilos :
            Cardinality({k \in DOMAIN o : o[k] = h}) = MaxIngestasHilo}

\* the windows and trajectories after thread h's next call is made, whole,
\* on the windows and trajectories e, with the optimizer outcomes that call had
LlamadaEntera(e, h) ==
    LET imsi == SujetoDe(h)
        n == e.hechas[h]
        ventana == Append(Leer(e.ventanas, imsi), CeldaHilo(h, n))
        r == Estimar(estaciones_base, ventana, hilos[h].exitos[n + 1][1],
                     hilos[h].exitos[n + 1][2], reloj)
    IN  [ventanas |-> LimpiarMedicionesAntiguas(
                          Poner(e.ventanas, imsi, ventana), reloj),
         trayectorias |-> IF r.ubicacion # None
                          THEN ActualizarTrayectoria(e.trayectorias, imsi,
                                                     r.ubicacion[1])
                          ELSE e.trayectorias,
         hechas |-> [e.hechas EXCEPT ![h] = @ + 1]]

RECURSIVE EnOrden(_, _, _)
\* the calls of order o from its k-th on, made one after another
EnOrden(o, k, e) ==
    IF k > Len(o) THEN e ELSE EnOrden(o, k + 1, LlamadaEntera(e, o[k]))

\* what the calls leave when made one after another, in every order
Secuenciales ==
    {EnOrden(o, 1, [ventanas |-> << >>, trayectorias |-> << >>,
                    hechas |-> [h \in Hilos |-> 0]]) : o \in Ordenes}

\* C13: when the calls of two threads for two different subjects have all
\* returned, every subject's window and trajectory are what the same calls
\* made one after another, in some order, leave: no appended measurement and
\* no trajectory entry is lost.
C13_ComoSecuencial ==
    Terminado =>
        \E e \in Secuenciales :
            \A h \in Hilos :
                /\ Leer(mediciones_actuales, SujetoDe(h))
                      = Leer(e.ventanas, SujetoDe(h))
                /\ Leer(trayectorias, SujetoDe(h))
                      = Leer(e.trayectorias, SujetoDe(h))

\* the two-cell routine was evaluated on cell A of strength -60 and cell B of
\* strength -90 whose towers are 10 km apart
C14_Escenario ==
    /\ calculo.op = "2_CELDAS"
    /\ calculo.hecho
    /\ calculo.entradas[1].celda.signal_strength = -60
    /\ calculo.entradas[2].celda.signal_strength = -90
    /\ CalcularDistancia(Entero(calculo.entradas[1].ubicacion.lat),
                         Entero(calculo.entradas[1].ubicacion.lon),
                         Entero(calculo.entradas[2].ubicacion.lat),
                         Entero(calculo.entradas[2].ubicacion.lon)) = Entero(10)

\* distance from the estimate of the two-cell routine to its i-th tower
DistanciaATorre(i) ==
    CalcularDistancia(calculo.salida.latitude, calculo.salida.longitude,
                      Entero(calculo.entradas[i].ubicacion.lat),
                      Entero(calculo.entradas[i].ubicacion.lon))

\* C14: the two-cell estimate for cell A of strength -60 and cell B of
\* strength -90, 10 km apart, is strictly closer to A than to B, and its
\* precision is exactly 5.0 km.
C14_MasCercaDeLaFuerte ==
    C14_Escenario =>
        /\ Menor(DistanciaATorre(1), DistanciaATorre(2))
        /\ calculo.salida.precision = Entero(5)

\* the signal strengths handed to the centroid
PotenciasDe(celdas) == [i \in 1..Len(celdas) |-> celdas[i].celda.signal_strength]

\* every weight is 1/n
Uniformes(pesos) == \A i \in 1..Len(pesos) : pesos[i] = Rac(1, Len(pesos))

\* every weight is the raw signal strength over the sum of them all, and the
\* weights sum to 1
Normalizados(pesos, potencias) ==
    /\ \A i \in 1..Len(pesos) :
          Por(pesos[i], Entero(SumaEnteros(potencias))) = Entero(potencias[i])
    /\ Suma(pesos) = Entero(1)

\* C15 as stated: the centroid's weights are uniform exactly when all raw
\* signal strengths are <= 0; as soon as one is > 0 they are the raw strengths
\* normalised to sum 1.
C15_UniformeSiTodosNoPositivos ==
    (calculo.op = "CENTROIDE" /\ calculo.hecho) =>
        IF \A i \in 1..Len(calculo.entradas) : PotenciasDe(calculo.entradas)[i] <= 0
        THEN Uniformes(calculo.salida.pesos)
        ELSE Normalizados(calculo.salida.pesos, PotenciasDe(calculo.entradas))

\* C15 amended: the centroid's weights are uniform exactly when the sum of
\* the raw signal strengths is <= 0; when the sum is > 0 they are the raw
\* strengths normalised to sum 1.
C15_UniformeSiSumaNoPositiva ==
    (calculo.op = "CENTROIDE" /\ calculo.hecho) =>
        IF SumaEnteros(PotenciasDe(calculo.entradas)) <= 0
        THEN Uniformes(calculo.salida.pesos)
        ELSE Normalizados(calculo.salida.pesos, PotenciasDe(calculo.entradas))

\* C15 witness: one strength is positive, the sum is negative, and the
\* weights are uniform.
C15_Testigo ==
    /\ calculo.op = "CENTROIDE"
    /\ calculo.hecho
    /\ \E i \in 1..Len(calculo.entradas) : PotenciasDe(calculo.entradas)[i] > 0
    /\ SumaEnteros(PotenciasDe(calculo.entradas)) < 0
    /\ Uniformes(calculo.salida.pesos)

\* x lies between the smallest and the largest of the integers xs
EntreExtremos(x, xs) ==
    /\ \E i \in 1..Len(xs) : MenorIgual(Entero(xs[i]), x)
    /\ \E i \in 1..Len(xs) : MenorIgual(x, Entero(xs[i]))

\* C16: for 2 or more resolved pairs whose signal strengths are all positive
\* the centroid returns an estimate whose latitude and longitude lie between
\* the smallest and the largest latitude / longitude of the towers.
C16_CentroideEnLaCaja ==
    (/\ calculo.op = "CENTROIDE"
     /\ calculo.hecho
     /\ \A i \in 1..Len(calculo.entradas) : PotenciasDe(calculo.entradas)[i] > 0)
    => /\ calculo.salida.latitude.d > 0
       /\ calculo.salida.longitude.d > 0
       /\ EntreExtremos(calculo.salida.latitude,
                        [i \in 1..Len(calculo.entradas) |->
                            calculo.entradas[i].ubicacion.lat])
       /\ EntreExtremos(calculo.salida.longitude,
                        [i \in 1..Len(calculo.entradas) |->
                            calculo.entradas[i].ubicacion.lon])

\* C16 witness: three pairs of positive, unequal strengths; the estimate is
\* strictly inside the towers' latitudes.
C16_Testigo ==
    /\ calculo.op = "CENTROIDE"
    /\ calculo.hecho
    /\ Len(calculo.entradas) = 3
    /\ \A i \in 1..3 : PotenciasDe(calculo.entradas)[i] > 0
    /\ PotenciasDe(calculo.entradas)[1] # PotenciasDe(calculo.entradas)[2]
    /\ \A i \in 1..3 :
          calculo.salida.latitude # Entero(calculo.entradas[i].ubicacion.lat)

\* the sum of the values xs weighted by pesos
Ponderada(xs, pesos) ==
    Suma([i \in 1..Len(xs) |-> Por(Entero(xs[i]), pesos[i])])

\* C17: the combiner's weights are proportional to 1/(p_i + 0.001) and sum
\* to 1; its latitude, longitude and precision are the means of the inputs'
\* under these weights; the precision lies between the smallest and the
\* largest input precision; for a single input the output equals the input.
C17_MediaPonderada ==
    (calculo.op = "COMBINADO" /\ calculo.hecho) =>
        LET e == calculo.entradas
            w == calculo.salida.pesos
            lats == [i \in 1..Len(e) |-> e[i].latitude]
            lons == [i \in 1..Len(e) |-> e[i].longitude]
            precs == [i \in 1..Len(e) |-> e[i].precision]
        IN  /\ Suma(w) = Entero(1)
            /\ \A i \in 1..Len(e), j \in 1..Len(e) :
                  Por(w[i], Entero(precs[i] + 1)) = Por(w[j], Entero(precs[j] + 1))
            /\ calculo.salida.latitude = Ponderada(lats, w)
            /\ calculo.salida.longitude = Ponderada(lons, w)
            /\ calculo.salida.precision = Ponderada(precs, w)
            /\ EntreExtremos(calculo.salida.precision, precs)
            /\ Len(e) = 1 =>
                  /\ calculo.salida.latitude = Entero(lats[1])
                  /\ calculo.salida.longitude = Entero(lons[1])
                  /\ calculo.salida.precision = Entero(precs[1])

\* C17 witness: three estimates of three different precisions, one of them
\* 0; the combined precision is strictly between the extremes.
C17_Testigo ==
    /\ calculo.op = "COMBINADO"
    /\ calculo.hecho
    /\ Len(calculo.entradas) = 3
    /\ {calculo.entradas[i].precision : i \in 1..3} = PrecisionesCalculo
    /\ \A i \in 1..3 :
          calculo.salida.precision # Entero(calculo.entradas[i].precision)

\* the combiner was evaluated on an estimate of precision 1.0 followed by one
\* of precision 0.001
C18_Escenario ==
    /\ calculo.op = "COMBINADO"
    /\ calculo.hecho
    /\ Len(calculo.entradas) = 2
    /\ calculo.entradas[1].precision = 1000
    /\ calculo.entradas[2].precision = 1

\* how far the combined estimate is from the i-th input, in latitude and in
\* longitude
LejosLat(i) ==
    AbsRac(Menos(calculo.salida.latitude, Entero(calculo.entradas[i].latitude)))

LejosLon(i) ==
    AbsRac(Menos(calculo.salida.longitude, Entero(calculo.entradas[i].longitude)))

\* C18 as stated: the 0.001-precision estimate's weight is about 1000 times
\* the other's (within a tenth of 1000), and the combined position is closer
\* to it than to the other.
C18_RazonMil ==
    C18_Escenario =>
        /\ MenorIgual(Por(Entero(900), calculo.salida.pesos[1]),
                      calculo.salida.pesos[2])
        /\ MenorIgual(calculo.salida.pesos[2],
                      Por(Entero(1100), calculo.salida.pesos[1]))
        /\ Menor(LejosLat(2), LejosLat(1))
        /\ Menor(LejosLon(2), LejosLon(1))

\* C18 amended: the 0.001-precision estimate's weight is 500.5 times the
\* other's (1.001 / 0.002), and the combined position is 500.5 times closer
\* to it than to the other, in latitude and in longitude.
C18_RazonQuinientos ==
    C18_Escenario =>
        /\ Por(Entero(2), calculo.salida.pesos[2])
              = Por(Entero(1001), calculo.salida.pesos[1])
        /\ Por(Entero(1001), LejosLat(2)) = Por(Entero(2), LejosLat(1))
        /\ Por(Entero(1001), LejosLon(2)) = Por(Entero(2), LejosLon(1))
        /\ Menor(LejosLat(2), LejosLat(1))
        /\ Menor(LejosLon(2), LejosLon(1))

\* C18 witness: the scenario, on two estimates at different positions.
C18_Testigo ==
    /\ C18_Escenario
    /\ calculo.entradas[1].latitude # calculo.entradas[2].latitude
    /\ calculo.entradas[1].longitude # calculo.entradas[2].longitude
    /\ Menor(Entero(0), LejosLat(2))

\* C20: the engine's estimate list holds at most 1000 estimates, the newest
\* ones, in the order in which they were produced.
C20_EstimacionesUltimasMil ==
    /\ Len(ubicaciones_estimadas) <= CAPACIDAD_ESTIMACIONES
    /\ \A i \in DOMAIN producidas :
          DOMAIN producidas = {i} =>
              ubicaciones_estimadas =
                  Ultimos(producidas[i], CAPACIDAD_ESTIMACIONES)

\* C21: a subject key whose window is empty after a purge is removed from the
\* windows: the engine keeps no window entry for it, as for a key never seen.
C21_ClaveRecogida ==
    \A imsi \in DOMAIN mediciones_actuales : mediciones_actuales[imsi] # <<>>

\* age of a measurement at the time of the last call, in minutes
EdadEnLlamada(c) == llamada.hora - c.timestamp

\* C23: after a call returns, the caller's window holds no measurement
\* observed more than 5 minutes before the time of the call, the measurement
\* just handed in included.
C23_SinMedicionesPasadas ==
    n_llamadas > 0 =>
        \A k \in 1..Len(Leer(mediciones_actuales, llamada.imsi)) :
            EdadEnLlamada(mediciones_actuales[llamada.imsi][k]) <= MINUTOS_VENTANA

\* C23 witness: a call handed in a measurement observed 6 minutes earlier
\* while the window held one that had become 6 minutes old, and left the
\* window without both.
C23_Testigo ==
    /\ n_llamadas > 0
    /\ Len(llamada.ventana) >= 2
    /\ EdadEnLlamada(llamada.celda) = 6
    /\ EdadEnLlamada(llamada.ventana[1]) = 6
    /\ Leer(mediciones_actuales, llamada.imsi) = <<>>

\* the windows as the purge of the call being made finds them
AntesDePurga == Poner(mediciones_actuales, llamada'.imsi, llamada'.ventana)

C22_PrecisionNoNegativa ==
    calculo.hecho =>
        /\ calculo.op = "2_CELDAS" =>
              MenorIgual(Entero(0), calculo.salida.precision)
        /\ calculo.op = "CENTROIDE" =>
              /\ ~calculo.salida.precision.nan
              /\ MenorIgual(Entero(0), calculo.salida.precision.radicando)
        /\ calculo.op = "COMBINADO" =>
              MenorIgual(Entero(0), calculo.salida.precision)

\* a step is a call of a read accessor
EsLectura ==
    /\ n_llamadas' = n_llamadas
    /\ calculo'.op \in {"generar_trayectoria_imsi", "generar_mapa_celdas",
                        "generar_mapa_heatmap", "generar_reportes_ubicacion"}

\* C24: a call of a read accessor, in any state and for any subject, leaves
\* the measurement history, the windows, the trajectories and the estimate
\* list as they were, their sets of keys included.
C24_LecturaSinEfecto ==
    [][EsLectura =>
          /\ historial_mediciones' = historial_mediciones
          /\ mediciones_actuales' = mediciones_actuales
          /\ trayectorias' = trayectorias
          /\ ubicaciones_estimadas' = ubicaciones_estimadas]_vars

\* C24 witness: after estimates have been produced a reader has asked for the
\* trajectory of a subject never seen, was given the empty answer, and the
\* trajectories hold no key for that subject.
C24_Testigo ==
    /\ ubicaciones_estimadas # <<>>
    /\ calculo.op = "generar_trayectoria_imsi"
    /\ calculo.entradas = IMSIDesconocido
    /\ calculo.salida = None
    /\ DOMAIN trayectorias # {}
    /\ IMSIDesconocido \notin DOMAIN trayectorias

\* the state of a subject: COLD, WARMING or ACTIVE by the size of its window
Estado(ventanas, imsi) ==
    IF Len(Leer(ventanas, imsi)) = 0 THEN "COLD"
    ELSE IF Len(Leer(ventanas, imsi)) = 1 THEN "WARMING"
    ELSE "ACTIVE"

\* C26: one call makes no window longer by more than one entry, and takes no
\* subject from COLD to ACTIVE.
C26_SinSaltoAActivo ==
    [][EsLlamada =>
          \A imsi \in IMSIs :
              /\ Len(Leer(mediciones_actuales', imsi))
                     <= Len(Leer(mediciones_actuales, imsi)) + 1
              /\ ~(/\ Estado(mediciones_actuales, imsi) = "COLD"
                   /\ Estado(mediciones_actuales', imsi) = "ACTIVE")]_vars

\* C26 witness: while another subject was ACTIVE, a call was made for a
\* subject that was COLD and left it WARMING.
C26_Testigo ==
    /\ n_llamadas > 0
    /\ Len(llamada.ventana) = 1
    /\ Estado(mediciones_actuales, llamada.imsi) = "WARMING"
    /\ \E otro \in IMSIs : Estado(mediciones_actuales, otro) = "ACTIVE"

RECURSIVE LargoTotal(_, _)
\* sum of the lengths of the lists a dict holds under the given keys
LargoTotal(d, claves) ==
    IF claves = {} THEN 0
    ELSE LET k == CHOOSE c \in claves : TRUE
         IN  Len(d[k]) + LargoTotal(d, claves \ {k})

\* C27: a call appends at most one estimate to the estimate list; it appends
\* one exactly when it appends that estimate to the caller's trajectory, and
\* no other trajectory changes; the length of the list is the number of
\* trajectory appends made so far and at least the sum of the trajectories'
\* lengths.
C27_ListaYTrayectoriaALaPar ==
    [][EsLlamada =>
          LET nuevas == Len(ubicaciones_estimadas') - Len(ubicaciones_estimadas)
              imsi == llamada'.imsi
          IN  /\ nuevas \in {0, 1}
              /\ SubSeq(ubicaciones_estimadas', 1, Len(ubicaciones_estimadas))
                     = ubicaciones_estimadas
              /\ \A otro \in DOMAIN trayectorias' \ {imsi} :
                     /\ otro \in DOMAIN trayectorias
                     /\ trayectorias'[otro] = trayectorias[otro]
              /\ nuevas = 0 => trayectorias' = trayectorias
              /\ nuevas = 1 =>
                     Leer(trayectorias', imsi) =
                         Ultimos(Append(Leer(trayectorias, imsi),
                                        ubicaciones_estimadas'[
                                            Len(ubicaciones_estimadas')]),
                                 CAPACIDAD_TRAYECTORIA)
              /\ Len(ubicaciones_estimadas')
                     = LargoTotal(producidas', DOMAIN producidas')
              /\ Len(ubicaciones_estimadas')
                     >= LargoTotal(trayectorias', DOMAIN trayectorias')]_vars

\* C27 witness: a call for one subject appended an estimate to the list and
\* to that subject's trajectory, and the next call, for the other subject,
\* appended nothing and left that trajectory as it was.
C27_Testigo ==
    /\ n_llamadas = 3
    /\ llamada.ubicacion = None
    /\ Len(ubicaciones_estimadas) = 1
    /\ DOMAIN trayectorias # {}
    /\ \A imsi \in DOMAIN trayectorias :
           /\ imsi # llamada.imsi
           /\ trayectorias[imsi] = ubicaciones_estimadas

\* C28: after any sequence of calls of the tracker's callback the list of
\* detected IMSIs has no duplicates, the IMSI counter is its length, and every
\* non-empty value of the TMSI map is an IMSI of the list.
C28_RastreadorCoherente ==
    LET lista == rastreador.imsis_detectados
        mapa == rastreador.tmsis_asociados
    IN  /\ \A i, j \in 1..Len(lista) : lista[i] = lista[j] => i = j
        /\ rastreador.contador_imsi = Len(lista)
        /\ \A tmsi \in DOMAIN mapa :
               mapa[tmsi] # <<>> => mapa[tmsi] \in Valores(lista)

\* the last call of the callback carried two TMSIs and no IMSI
EsReasignacion(c) ==
    c.imsi1 = <<>> /\ c.imsi2 = <<>> /\ c.tmsi1 # "" /\ c.tmsi2 # ""

\* C28 witness: two IMSIs have been detected, and the last call was a TMSI
\* reallocation that moved the TMSI of one of them.
C28_Testigo ==
    /\ Len(rastreador.imsis_detectados) = 2
    /\ EsReasignacion(rastreador.llamada)
    /\ rastreador.llamada.tmsi1 # rastreador.llamada.tmsi2
    /\ rastreador.llamada.tmsi1 \in DOMAIN rastreador.tmsis_asociados
    /\ rastreador.llamada.tmsi2 \notin DOMAIN rastreador.tmsis_asociados
    /\ rastreador.tmsis_asociados[rastreador.llamada.tmsi1]
           \in Valores(rastreador.imsis_detectados)

\* C29: a call with no IMSI and two TMSIs t1, t2, t2 being a key of the map,
\* leaves t1 mapped to what t2 was mapped to and t2 not a key, also when
\* t1 = t2; when t2 is not a key and TMSIs without IMSI are not shown, the map
\* is left as it was.
C29_ReasignacionMueve ==
    [][EsReasignacion(rastreador'.llamada) =>
          LET c == rastreador'.llamada
              antes == rastreador.tmsis_asociados
              despues == rastreador'.tmsis_asociados
          IN  /\ c.tmsi2 \in DOMAIN antes =>
                     /\ c.tmsi1 \in DOMAIN despues
                     /\ despues[c.tmsi1] = antes[c.tmsi2]
                     /\ c.tmsi2 \notin DOMAIN despues
              /\ (c.tmsi2 \notin DOMAIN antes
                      /\ ~rastreador.mostrar_todos_tmsi) =>
                     despues = antes]_vars

\* C30: after each call of analizar_comportamiento_sospechoso the queue of
\* the event's IMSI holds, in ascending order, only times at most 5 minutes
\* before the time of the call, and the call has appended a
\* REASIGNACION_TMSI_RAPIDA alert exactly when the queue holds more than 10.
C30_ColaRecienteYAlerta ==
    analizador_movil.eventos > 0 =>
        LET c == analizador_movil.llamada
            cola == analizador_movil.reasignaciones_rapidas[c.imsi]
        IN  /\ \A i, j \in 1..Len(cola) : i < j => cola[i] <= cola[j]
            /\ \A i \in 1..Len(cola) :
                   c.hora - cola[i] <= MINUTOS_REASIGNACION
            /\ (\E k \in 1..Len(c.alertas) :
                    c.alertas[k].tipo = "REASIGNACION_TMSI_RAPIDA")
                   <=> Len(cola) > UMBRAL_REASIGNACIONES

====
